---- MODULE Spec2Model ----
(***************************************************************************)
(* Verification model of the planned-command scheduler                     *)
(* (PlannedCommandManager, src/src/utils/name-generator.js:195-500, and    *)
(* its sequence-less twin src/src/core/planned-command-manager.js), of the *)
(* session supervisor (MultiBotManager), of the name generator             *)
(* (UsernameManager), of the proxy manager (ProxyManager) and of the       *)
(* pause/resume handling of the autonomous task (blockquest command).      *)
(*                                                                         *)
(* Time is a fake clock in milliseconds.  A timer fires exactly when the   *)
(* clock reaches its due time; the clock only advances when no timer is    *)
(* due.  JavaScript Maps are functions whose DOMAIN is the key set.        *)
(* Timers are kept in a bag, because the code can arm several identical    *)
(* timers.  Every successful scheduleCommand call gets a fresh entry       *)
(* number (eid); a sequence object is named by the eid of the call that    *)
(* created it.                                                             *)
(***************************************************************************)
EXTENDS Integers, Sequences, FiniteSets, Bags, TLC

\* ---------------------------------------------------------------- bounds
MaxEntries == 2
MaxTicks == 4
MaxInterval == 2
MaxSteps == 2
MaxQuanta == 4
MaxBots == 3
NamePool == 2
MaxBatch == 2
MaxNameCalls == 3
MaxProxies == 3
MaxProxyTime == 3
MaxTaskStarts == 2
MaxTaskSeconds == 4
MaxAnnounced == 1
MaxTarget == 1
MaxFailed == 4
MaxReloaded == 1
SchedTicks == 1

\* ------------------------------------------------------ program constants
DefaultStepDelay == 1000
RepeatDelay == 1000
CronEverySecond == 1000
maxAttempts == 50
DefaultClearLaggSeconds == 10
ResumeBufferSeconds == 2

Quantum == DefaultStepDelay \div 2
MaxTime == MaxQuanta * Quantum

Ids == {"x", "y"}
BotIds == {"b1", "b2", "b3"}
NoBot == ""

ValidCron == "* * * * * *"
BadCron == "not-a-cron"

TriggerKinds == {"delay", "cron", "date", "seqdelay", "seqcron", "seqdate"}

VARIABLES
    tickTimer,          \* TRUE while the setInterval of the tick clock is live
    isRunning,
    tickCount,
    tickBasedCommands,  \* Map id -> [eid, interval, t0, fired]
    scheduledCommands,  \* Map id -> [eid, handle, armed, type, repeat, createdAt]
    sequences,          \* Map id -> sequence object (named by its eid)
    objs,               \* heap of sequence objects still referenced
    timers,             \* bag of outstanding setTimeout / node-schedule jobs
    now,
    nextEid,
    dead,               \* history: eids that a cancelCommand was aimed at
    events,             \* history: what the last step dispatched / started
    lastOp,             \* history: last API call and its return value
    cleaned,            \* history: cleanup() has returned
    bots,               \* supervisor: Map botId -> session instance, in insertion order
    activeBot,
    nextInst,
    sessionTimers,      \* session instances whose scheduler tick clock is live
    supOp,              \* history: last supervisor call and its return value
    handler,            \* what this.bot.commandManager does with a command
    routed,             \* history: result object and sessions reached by the last routing call
    usedNames,          \* name generator: the Set of used names (the ledger)
    wallClock,          \* Date.now(), in milliseconds
    nameCalls,          \* history: number of generator calls so far
    issued,             \* history: the names returned by the last generator call
    proxies,            \* proxy manager: the list (elements are proxy objects or null)
    currentProxyIndex,  \* 0-based, as in the code
    lastRotationTime,
    proxyClock,         \* Date.now() as the proxy manager sees it
    proxyOp,            \* history: last proxy manager call and what it returned
    blockQuestTask,     \* bot.blockQuestTask, or NoTask
    taskTimers,         \* bag of outstanding resume timers [inst, due]
    taskNow,            \* the clock of the task's timers, in milliseconds
    listeners,          \* number of 'message' listeners the command has registered
    originalHandler,    \* bot._originalBlockQuestMessageHandler: "none", "function" or "array"
    taskStarts,         \* number of tasks started so far
    taskOp,             \* history: last task event, and the most recent warning
    loops,              \* the blockQuestLoop of every task started, with its task object
    loopOp,             \* history: what the last resumption of a loop did
    stopped,            \* history: the last stopBlockQuest that found a task
    registry,           \* command registry: verb or alias -> name of the command
    loaded,             \* number of commands of the bundled list handed to register
    regOp,              \* history: the last register call and its result
    mass,               \* the createMassBots call: where it is suspended, its locals
    massLog,            \* history: sessions created and chat commands sent by it
    attackInterval,     \* TRUE while the setInterval of the attack loop is live
    attackTarget,       \* bot.attackTarget, or NoTarget
    attackOp,           \* history: the last call or firing of the attack command
    plans,              \* the plans directory: Map plan name -> saved document
    planOp,             \* history: the last plan save / plan load and its outcome
    reconnectTimers,    \* session instances with a pending setTimeout of the 'end' handler
    connOp              \* history: the last 'end' event or reconnect, and its session

schedVars == <<tickTimer, isRunning, tickCount, tickBasedCommands, scheduledCommands,
               sequences, objs, timers, now, nextEid, dead, events, lastOp, cleaned>>
supVars == <<bots, activeBot, nextInst, sessionTimers, supOp, routed>>
dispatchVars == <<handler>>
vars == <<tickTimer, isRunning, tickCount, tickBasedCommands, scheduledCommands,
          sequences, objs, timers, now, nextEid, dead, events, lastOp, cleaned,
          bots, activeBot, nextInst, sessionTimers, supOp, handler, routed,
          usedNames, wallClock, nameCalls, issued,
          proxies, currentProxyIndex, lastRotationTime, proxyClock, proxyOp,
          blockQuestTask, taskTimers, taskNow, listeners, originalHandler, taskStarts, taskOp,
          loops, loopOp, stopped,
          registry, loaded, regOp,
          mass, massLog,
          attackInterval, attackTarget, attackOp,
          plans, planOp,
          reconnectTimers, connOp>>
connVars == <<reconnectTimers, connOp>>
planVars == <<plans, planOp>>
attackVars == <<attackInterval, attackTarget, attackOp>>
regVars == <<registry, loaded, regOp>>
massVars == <<mass, massLog>>
loopVars == <<loops, loopOp, stopped>>
taskVars == <<blockQuestTask, taskTimers, taskNow, listeners, originalHandler, taskStarts,
              taskOp, loopVars>>
nameVars == <<usedNames, wallClock, nameCalls, issued>>
proxyVars == <<proxies, currentProxyIndex, lastRotationTime, proxyClock, proxyOp>>

\* the remaining components
restVars == <<regVars, massVars, attackVars, planVars, connVars>>

\* the scheduler, the supervisor and the dispatcher of one session
coreVars == <<schedVars, supVars, dispatchVars>>
\* the process-wide utilities, and the autonomous task of a session
utilVars == <<nameVars, proxyVars, taskVars, restVars>>

\* everything outside the scheduler / outside the supervisor
nonSchedVars == <<supVars, dispatchVars, utilVars>>
nonSupVars == <<schedVars, dispatchVars, utilVars>>

\* ------------------------------------------------------------ Map helpers
EmptyMap == [k \in {} |-> 0]

MapHas(m, k) == k \in DOMAIN m

MapSet(m, k, v) == [j \in (DOMAIN m) \cup {k} |-> IF j = k THEN v ELSE m[j]]

MapDelete(m, k) == [j \in (DOMAIN m) \ {k} |-> m[j]]

\* ----------------------------------------------------------- timer helpers
Timer(kind, id, eid, due, idx, repeat) ==
    [kind |-> kind, id |-> id, eid |-> eid, due |-> due, idx |-> idx, repeat |-> repeat]

AddTimer(tm, t) == tm (+) SetToBag({t})

RemoveOneTimer(tm, t) == tm (-) SetToBag({t})

\* mutant: the handle is dropped without being cancelled
ClearHandleForgotten(tm, e) == tm

\* job.cancel() / clearTimeout(handle): the handle of entry e is its trigger timer
ClearHandle(tm, e) ==
    [t \in {u \in DOMAIN tm : ~(u.eid = e /\ u.kind \in TriggerKinds)} |-> tm[t]]

NextCronMatch(t) == ((t \div CronEverySecond) + 1) * CronEverySecond

\* ------------------------------------------------- scheduler state records
\* The handlers are written as functions on a record of the mutable fields,
\* so that a handler can call another one (scheduleCommand -> cancelCommand).
Cur ==
    [tbc |-> tickBasedCommands, sc |-> scheduledCommands, sq |-> sequences,
     ob |-> objs, tm |-> timers, dd |-> dead, ev |-> <<>>, ex |-> FALSE]

EidsUnder(s, id) ==
    (IF MapHas(s.tbc, id) THEN {s.tbc[id].eid} ELSE {})
    \cup (IF MapHas(s.sc, id) THEN {s.sc[id].eid} ELSE {})
    \cup (IF MapHas(s.sq, id) THEN {s.sq[id]} ELSE {})

Emit(s, type, eid, arg) ==
    [s EXCEPT !.ev = Append(@, [type |-> type, eid |-> eid, arg |-> arg])]

\* what the dispatcher of the session can do with a command: run it, throw,
\* or be absent (this.bot.commandManager not set)
Handlers == {"ok", "throws", "none"}

\* events that executeCommand leaves behind
ThroughExecute == {"dispatch", "failed", "unavailable"}

\* cancelCommand(id): first matching domain only, in the order
\* sequences, tickBasedCommands, scheduledCommands
\* mutant: the scheduledCommands domain is not looked at
cancelCommandSkipScheduled(s, id) ==
    LET m == [s EXCEPT !.dd = @ \cup EidsUnder(s, id)] IN
    IF MapHas(s.sq, id) THEN
        [s |-> [m EXCEPT !.ob[s.sq[id]].isRunning = FALSE,
                         !.sq = MapDelete(@, id)],
         ret |-> TRUE]
    ELSE IF MapHas(s.tbc, id) THEN
        [s |-> [m EXCEPT !.tbc = MapDelete(@, id)], ret |-> TRUE]
    ELSE [s |-> s, ret |-> FALSE]

cancelCommandR(s, id) ==
    LET m == [s EXCEPT !.dd = @ \cup EidsUnder(s, id)] IN
    IF MapHas(s.sq, id) THEN
        [s |-> [m EXCEPT !.ob[s.sq[id]].isRunning = FALSE,
                         !.sq = MapDelete(@, id)],
         ret |-> TRUE]
    ELSE IF MapHas(s.tbc, id) THEN
        [s |-> [m EXCEPT !.tbc = MapDelete(@, id)], ret |-> TRUE]
    ELSE IF MapHas(s.sc, id) THEN
        [s |-> [m EXCEPT !.tm = ClearHandle(@, s.sc[id].eid),
                         !.sc = MapDelete(@, id)],
         ret |-> TRUE]
    ELSE [s |-> s, ret |-> FALSE]

\* a call of cancelCommand whose return value is ignored
cancelCommand(s, id) == cancelCommandR(s, id).s

\* the identifier that the dispatched command cancels when the commands of
\* the session are "plan cancel y"
CancelTarget == "y"

\* the entry that cancelCommand(id) removes: that of the first domain
RemovedBy(s, id) ==
    IF MapHas(s.sq, id) THEN s.sq[id]
    ELSE IF MapHas(s.tbc, id) THEN s.tbc[id].eid
    ELSE IF MapHas(s.sc, id) THEN s.sc[id].eid
    ELSE 0

\* the domain cancelCommand(id) finds id in: 1 sequences, 2 tickBasedCommands,
\* 3 scheduledCommands
DomainOf(s, id) ==
    IF MapHas(s.sq, id) THEN 1 ELSE IF MapHas(s.tbc, id) THEN 2 ELSE 3

\* the plan command run by the dispatcher: plan cancel <CancelTarget>
PlanCancel(s) ==
    IF cancelCommandR(s, CancelTarget).ret
    THEN Emit(cancelCommandR(s, CancelTarget).s, "cancelled", RemovedBy(s, CancelTarget),
              DomainOf(s, CancelTarget))
    ELSE s

\* mutant: no try/catch, the handler's exception leaves executeCommand
executeCommandUncaught(s, eid, arg) ==
    IF handler = "none" THEN Emit(s, "unavailable", eid, arg)
    ELSE IF handler = "throws" THEN [Emit(s, "failed", eid, arg) EXCEPT !.ex = TRUE]
    ELSE IF handler = "cancels" THEN PlanCancel(Emit(s, "dispatch", eid, arg))
    ELSE Emit(s, "dispatch", eid, arg)

\* executeCommand(commandObj): hand the command to the dispatcher inside a
\* try/catch; s.ex (an exception in flight) is never set by it
executeCommand(s, eid, arg) ==
    IF handler = "none" THEN Emit(s, "unavailable", eid, arg)
    ELSE IF handler = "throws" THEN Emit(s, "failed", eid, arg)
    ELSE IF handler = "cancels" THEN PlanCancel(Emit(s, "dispatch", eid, arg))
    ELSE Emit(s, "dispatch", eid, arg)

\* ------------------------------------------------------------- sequences
NoDelay == -1   \* a step given as a bare string, or without a delay field

\* scheduleSequence's commands.map(...): delay = cmd.delay || index * 1000
StepDelay(given, index) ==
    IF given = NoDelay THEN index * DefaultStepDelay
    ELSE IF given # 0 THEN given
    ELSE index * DefaultStepDelay

NewSequence(id, steps, options) ==
    [id |-> id,
     delay |-> [i \in 1..Len(steps) |-> StepDelay(steps[i], i - 1)],
     given |-> steps,
     repeat |-> options.repeat,
     options |-> options,
     currentIndex |-> 0,
     isRunning |-> FALSE,
     runStart |-> 0]

\* the tail of executeSequence, after the for loop
FinishRun(s, o) ==
    LET m == [s EXCEPT !.ob[o].isRunning = FALSE] IN
    IF s.ob[o].repeat
    THEN [m EXCEPT !.tm = AddTimer(@, Timer("repeat", s.ob[o].id, o, now + RepeatDelay, 0, FALSE))]
    ELSE [m EXCEPT !.sq = MapDelete(@, s.ob[o].id)]

RECURSIVE RunLoop(_, _, _)
\* the for loop of executeSequence, from the top of the iteration for step i
\* up to the next await (a timer) or the end of the run
RunLoop(s, o, i) ==
    IF s.ex THEN s
    ELSE IF i > Len(s.ob[o].delay) THEN FinishRun(s, o)
    ELSE IF ~s.ob[o].isRunning THEN FinishRun(s, o)
    ELSE IF s.ob[o].delay[i] > 0
    THEN [s EXCEPT !.tm = AddTimer(@, Timer("step", s.ob[o].id, o, now + s.ob[o].delay[i], i, FALSE))]
    ELSE RunLoop([executeCommand(s, o, i) EXCEPT !.ob[o].currentIndex = @ + 1], o, i + 1)

\* the continuation of executeSequence after the await of step i
ResumeRun(s, o, i) ==
    RunLoop([executeCommand(s, o, i) EXCEPT !.ob[o].currentIndex = @ + 1], o, i + 1)

\* executeSequence(id), called by the timer or call numbered `by`
executeSequence(s, id, by) ==
    IF ~MapHas(s.sq, id) THEN s
    ELSE LET o == s.sq[id] IN
         IF s.ob[o].isRunning THEN s
         ELSE RunLoop([Emit(s, "run", by, o) EXCEPT !.ob[o].isRunning = TRUE,
                                                     !.ob[o].currentIndex = 0,
                                                     !.ob[o].runStart = now],
                      o, 1)

\* ------------------------------------------------------ scheduling options
NoOptions == [ticks |-> 0, cron |-> "", date |-> 0, delay |-> 0, repeat |-> FALSE]

\* cron.validate(expr)
cronValidate(expr) == expr = ValidCron

\* schedule.scheduleJob(expr, fn) returns null for an expression it cannot parse
JobArmed(expr) == expr = ValidCron

\* schedule.scheduleJob(date, fn) returns null for a date that has passed
DateArmed(date) == date >= now

\* a record of scheduledCommands; the trigger record of a sequence
\* ({ id, job, type: 'sequence' }) has no command and no options
SchedEntry(e, handle, armed, type, repeat, options) ==
    [eid |-> e, handle |-> handle, armed |-> armed, type |-> type, repeat |-> repeat,
     options |-> options,
     createdAt |-> IF type = "sequence" THEN 0 ELSE now]

scheduleSequence(s, e, id, steps, options) ==
    IF Len(steps) = 0 THEN [s |-> s, ret |-> FALSE]
    ELSE
    LET s1 == [s EXCEPT !.ob = MapSet(@, e, NewSequence(id, steps, options)),
                        !.sq = MapSet(@, id, e)]
        s2 ==
          IF options.cron # "" THEN
              [s1 EXCEPT !.tm = IF JobArmed(options.cron)
                                THEN AddTimer(@, Timer("seqcron", id, e, NextCronMatch(now), 0, FALSE))
                                ELSE @,
                         !.sc = MapSet(@, id, SchedEntry(e, "job", JobArmed(options.cron), "sequence", FALSE, NoOptions))]
          ELSE IF options.date # 0 THEN
              [s1 EXCEPT !.tm = IF DateArmed(options.date)
                                THEN AddTimer(@, Timer("seqdate", id, e, options.date, 0, FALSE))
                                ELSE @,
                         !.sc = MapSet(@, id, SchedEntry(e, "job", DateArmed(options.date),
                                                         "sequence", FALSE, NoOptions))]
          ELSE IF options.delay # 0 THEN
              [s1 EXCEPT !.tm = AddTimer(@, Timer("seqdelay", id, e, now + options.delay, 0, FALSE)),
                         !.sc = MapSet(@, id, SchedEntry(e, "timeout", TRUE, "sequence", FALSE, NoOptions))]
          ELSE executeSequence(s1, id, e)
    IN [s |-> s2, ret |-> TRUE]

\* scheduleCommand(id, command, options); command is [isArray, text, steps]
scheduleCommand(s, e, id, command, options) ==
    IF id = "" \/ (~command.isArray /\ command.text = "") THEN [s |-> s, ret |-> FALSE]
    ELSE
    LET s0 == cancelCommand(s, id) IN
    IF command.isArray THEN scheduleSequence(s0, e, id, command.steps, options)
    ELSE IF options.ticks # 0 THEN
        [s |-> [s0 EXCEPT !.tbc = MapSet(@, id, [eid |-> e, interval |-> options.ticks,
                                                  t0 |-> tickCount, fired |-> 0])],
         ret |-> TRUE]
    ELSE IF options.cron # "" THEN
        IF ~cronValidate(options.cron) THEN [s |-> s0, ret |-> FALSE]
        ELSE [s |-> [s0 EXCEPT !.tm = IF JobArmed(options.cron)
                                       THEN AddTimer(@, Timer("cron", id, e, NextCronMatch(now), 0, options.repeat))
                                       ELSE @,
                                !.sc = MapSet(@, id, SchedEntry(e, "job", JobArmed(options.cron), "cron", options.repeat, options))],
              ret |-> TRUE]
    ELSE IF options.date # 0 THEN
        [s |-> [s0 EXCEPT !.tm = IF DateArmed(options.date)
                                 THEN AddTimer(@, Timer("date", id, e, options.date, 0, options.repeat))
                                 ELSE @,
                          !.sc = MapSet(@, id, SchedEntry(e, "job", DateArmed(options.date),
                                                          "date", options.repeat, options))],
         ret |-> TRUE]
    ELSE IF options.delay # 0 THEN
        [s |-> [s0 EXCEPT !.tm = AddTimer(@, Timer("delay", id, e, now + options.delay, 0, options.repeat)),
                          !.sc = MapSet(@, id, SchedEntry(e, "timeout", TRUE, "delay", options.repeat, options))],
         ret |-> TRUE]
    ELSE [s |-> s0, ret |-> FALSE]

\* ------------------------------------------------------------ tick clock
RECURSIVE TickLoopOverCopy(_, _, _)
\* mutant: the loop runs over a copy of the entries taken when the tick began
TickLoopOverCopy(s, todo, n) ==
    IF todo = {} \/ s.ex THEN s
    ELSE LET id == CHOOSE k \in todo :
                      \A j \in todo : tickBasedCommands[k].eid <= tickBasedCommands[j].eid
             c == tickBasedCommands[id]
         IN IF n % c.interval = 0
            THEN TickLoopOverCopy(LET a == executeCommand(s, c.eid, 0) IN
                                  IF MapHas(a.tbc, id) THEN [a EXCEPT !.tbc[id].fired = @ + 1]
                                  ELSE a,
                                  todo \ {id}, n)
            ELSE TickLoopOverCopy(s, todo \ {id}, n)

RECURSIVE TickLoop(_, _, _)
\* the for loop of tick() over the Map's entries, in insertion order
\* (entries are inserted in eid order); n is the incremented tickCount.
\* The iterator of a Map does not visit an entry that was deleted before
\* its turn; the command object an entry fired with stays the entry's.
TickLoop(s, todo, n) ==
    IF todo \cap DOMAIN s.tbc = {} \/ s.ex THEN s
    ELSE LET live == todo \cap DOMAIN s.tbc
             id == CHOOSE k \in live : \A j \in live : s.tbc[k].eid <= s.tbc[j].eid
             c == s.tbc[id]
         IN IF n % c.interval = 0
            THEN TickLoop(LET a == executeCommand(s, c.eid, 0) IN
                          IF MapHas(a.tbc, id) THEN [a EXCEPT !.tbc[id].fired = @ + 1]
                          ELSE a,
                          live \ {id}, n)
            ELSE TickLoop(s, live \ {id}, n)

\* mutant: the loop evaluates the counter before it is incremented
tickBeforeIncrement(s, n) == TickLoop(s, DOMAIN s.tbc, n - 1)

tick(s, n) == TickLoop(s, DOMAIN s.tbc, n)

\* ------------------------------------------------------------ timer firing
\* re-arm a recurring node-schedule job unless its callback cancelled it
Rearm(s, t) ==
    IF BagIn(t, s.tm)
    THEN [s EXCEPT !.tm = AddTimer(RemoveOneTimer(@, t), [t EXCEPT !.due = NextCronMatch(now)])]
    ELSE s

FireTimer(s, t) ==
    LET s1 == [s EXCEPT !.tm = RemoveOneTimer(@, t)] IN
    CASE t.kind = "delay" ->
            LET a == executeCommand(s1, t.eid, 0) IN
            IF ~t.repeat /\ ~a.ex THEN cancelCommand(a, t.id) ELSE a
      [] t.kind = "cron" ->
            LET a == executeCommand(s, t.eid, 0) IN
            Rearm(IF ~t.repeat /\ ~a.ex THEN cancelCommand(a, t.id) ELSE a, t)
      [] t.kind = "date" ->
            LET a == executeCommand(s1, t.eid, 0) IN
            IF a.ex THEN a ELSE cancelCommand(a, t.id)
      [] t.kind = "seqdelay" -> executeSequence(s1, t.id, t.eid)
      [] t.kind = "seqdate" -> executeSequence(s1, t.id, t.eid)
      [] t.kind = "seqcron" -> Rearm(executeSequence(s, t.id, t.eid), t)
      [] t.kind = "step" -> ResumeRun(s1, t.eid, t.idx)
      [] t.kind = "repeat" -> executeSequence(s1, t.id, t.eid)

\* cleanup(): the loop over scheduledCommands.keys(), then the two clear()s
RECURSIVE CancelAll(_, _)
CancelAll(s, ids) ==
    IF ids = {} THEN s
    ELSE LET id == CHOOSE k \in ids : TRUE IN
         CancelAll(IF MapHas(s.sc, id) THEN cancelCommand(s, id) ELSE s, ids \ {id})

cleanup(s) ==
    LET a == CancelAll(s, DOMAIN s.sc) IN
    [a EXCEPT !.tbc = EmptyMap, !.sq = EmptyMap]

\* ------------------------------------------------------------- the inputs
RECURSIVE SeqsUpTo(_, _)
SeqsUpTo(S, n) ==
    IF n = 0 THEN {<<>>}
    ELSE LET shorter == SeqsUpTo(S, n - 1) IN
         shorter \cup {Append(q, x) : q \in {r \in shorter : Len(r) = n - 1}, x \in S}

StepChoices == {0, Quantum}

SingleCommands == {[isArray |-> FALSE, text |-> c, steps |-> <<>>] : c \in {"cmd", ""}}

\* arrays of {command, delay} objects, and arrays of bare command strings
ArrayCommands ==
    {[isArray |-> TRUE, text |-> "", steps |-> q] : q \in SeqsUpTo(StepChoices, MaxSteps)}
    \cup {[isArray |-> TRUE, text |-> "", steps |-> [i \in 1..n |-> NoDelay]] : n \in 1..MaxSteps}

\* how the spec classifies a request (error taxonomy (e))
RequestClass(command, options) ==
    IF command.isArray /\ Len(command.steps) = 0 THEN "empty"
    ELSE IF ~command.isArray /\ command.text = "" THEN "nocommand"
    ELSE IF ~command.isArray /\ options.ticks # 0 THEN "ok"
    ELSE IF options.cron # "" THEN (IF options.cron = ValidCron THEN "ok" ELSE "badcron")
    ELSE IF command.isArray \/ options.date # 0 \/ options.delay # 0 THEN "ok"
    ELSE "notiming"

NoTimer == Timer("", "", 0, 0, 0, FALSE)

Op(op, id, ret, t, req) == [op |-> op, id |-> id, ret |-> ret, t |-> t, req |-> req]

TimingOptions ==
    {[NoOptions EXCEPT !.cron = c] : c \in {ValidCron, BadCron}}
    \cup {[NoOptions EXCEPT !.date = now + Quantum]}
    \cup {[NoOptions EXCEPT !.delay = Quantum]}
    \cup {NoOptions}

SingleOptions ==
    {[NoOptions EXCEPT !.ticks = n] : n \in 1..MaxInterval}
    \cup {[o EXCEPT !.repeat = r] : o \in TimingOptions, r \in BOOLEAN}

ArrayOptions == {[o EXCEPT !.repeat = r] : o \in TimingOptions, r \in BOOLEAN}

SequenceOptions == {[o EXCEPT !.repeat = r] : o \in {NoOptions, [NoOptions EXCEPT !.delay = Quantum]},
                                              r \in BOOLEAN}

CoreArrayCommands ==
    {[isArray |-> TRUE, text |-> "", steps |-> q] : q \in {<<>>, <<0, Quantum>>}}

\* ------------------------------------------------------------ the actions
EidsInUse(s) ==
    {s.tbc[k].eid : k \in DOMAIN s.tbc} \cup {s.sc[k].eid : k \in DOMAIN s.sc}
    \cup {s.sq[k] : k \in DOMAIN s.sq} \cup {t.eid : t \in BagToSet(s.tm)}

\* store a handler's result; sequence objects that nothing references any
\* more are dropped (garbage), and so is the history of eids that can no
\* longer act, and the options of an object that has left the Map (only
\* getScheduledCommands reads them, for the sequences of the Map)
Commit(s) ==
    /\ tickBasedCommands' = s.tbc
    /\ scheduledCommands' = s.sc
    /\ sequences' = s.sq
    /\ timers' = s.tm
    /\ objs' = [o \in {k \in DOMAIN s.ob :
                         k \in {s.sq[j] : j \in DOMAIN s.sq}
                         \/ \E t \in BagToSet(s.tm) : t.eid = k /\ t.kind = "step"}
                 |-> IF o \in {s.sq[j] : j \in DOMAIN s.sq} THEN s.ob[o]
                     ELSE [s.ob[o] EXCEPT !.options = NoOptions]]
    /\ dead' = s.dd \cap {t.eid : t \in BagToSet(s.tm)}
    /\ events' = s.ev

SchedInit ==
    /\ tickTimer = TRUE
    /\ isRunning = TRUE
    /\ tickCount = 0
    /\ tickBasedCommands = EmptyMap
    /\ scheduledCommands = EmptyMap
    /\ sequences = EmptyMap
    /\ objs = EmptyMap
    /\ timers = EmptyBag
    /\ now = 0
    /\ nextEid = 1
    /\ dead = {}
    /\ events = <<>>
    /\ lastOp = Op("new", "", TRUE, NoTimer, "")
    /\ cleaned = FALSE

\* a supervisor call: its name, its argument, what it returned (TRUE for a
\* session or true, FALSE for null or false) and whether it threw instead
SupOp(op, id, ret, threw) ==
    [op |-> op, id |-> id, ret |-> ret, threw |-> threw, bulk |-> FALSE]

\* a createBot call, with its isMassBot argument
CreateOp(id, ret, isMassBot) == [SupOp("create", id, ret, FALSE) EXCEPT !.bulk = isMassBot]

NoRouting == [results |-> EmptyMap, reached |-> {}]

SupInit ==
    /\ bots = <<>>
    /\ activeBot = NoBot
    /\ nextInst = 1
    /\ sessionTimers = {}
    /\ supOp = SupOp("new", NoBot, TRUE, FALSE)
    /\ routed = NoRouting

DispatchInit == handler = "ok"

\* UsernameManager constructor with no ledger file yet
NameInit ==
    /\ usedNames = {}
    /\ wallClock = 0
    /\ nameCalls = 0
    /\ issued = <<>>

\* a proxy manager call: its name, the index of the proxy it returned (or
\* NoIndex for null) or its boolean, whether it threw, how many list entries
\* getNextProxy looked at and whether it rotated; flip tells two successive
\* calls apart
NoIndex == -1

ProxyOp(op, ret, threw, examined, rotated) ==
    [op |-> op, ret |-> ret, threw |-> threw, examined |-> examined,
     rotated |-> rotated, flip |-> ~proxyOp.flip]

\* ProxyManager constructor
ProxyInit ==
    /\ proxies = <<>>
    /\ currentProxyIndex = 0
    /\ lastRotationTime = 0
    /\ proxyClock = 0
    /\ proxyOp = [op |-> "new", ret |-> NoIndex, threw |-> FALSE, examined |-> 0,
                  rotated |-> FALSE, flip |-> FALSE]

NoTask == [inst |-> 0, running |-> FALSE, clearLaggPaused |-> FALSE, clearLaggTimeout |-> 0]

\* no number in the message text
NoSeconds == -1

NoMessage == [warning |-> FALSE, done |-> FALSE, seconds |-> NoSeconds]

\* the fields of a task object the loop reads and writes, with the place
\* the loop is suspended at (pc) and, as history, the number of place
\* attempts that failed since the last one that succeeded (placeRun)
LoopOf(times, pc) ==
    [running |-> TRUE, targetTimes |-> times, currentCount |-> 0, failed |-> 0,
     placed |-> 0, broken |-> 0, pc |-> pc, placeRun |-> 0]

\* a loop that has returned; nothing refers to its task object any more
Finished ==
    [running |-> FALSE, targetTimes |-> 0, currentCount |-> 0, failed |-> 0,
     placed |-> 0, broken |-> 0, pc |-> "done", placeRun |-> 0]

\* what a resumption of loop inst did: the game actions it issued, the
\* outcome it met, and whether its task was running when it resumed
LoopOp(inst, acts, ev, ran) == [inst |-> inst, acts |-> acts, ev |-> ev, ran |-> ran]

NoLoopOp == LoopOp(0, {}, "none", FALSE)

\* a stopBlockQuest that found task inst, and whether it printed the results
StopOf(inst, reported) == [inst |-> inst, reported |-> reported]

NoStop == StopOf(0, FALSE)

\* a task event: its name, the message that was handled, and the time and
\* announced seconds of the most recent warning the live task was given
TaskOp(op, msg, warnedAt, warned) ==
    [op |-> op, msg |-> msg, warnedAt |-> warnedAt, warned |-> warned]

\* a session on which the command has not been used yet
TaskInit ==
    /\ blockQuestTask = NoTask
    /\ taskTimers = EmptyBag
    /\ taskNow = 0
    /\ listeners = 0
    /\ originalHandler = "none"
    /\ taskStarts = 0
    /\ taskOp = TaskOp("new", NoMessage, 0, NoSeconds)
    /\ loops = << >>
    /\ loopOp = NoLoopOp
    /\ stopped = NoStop

\* a command as the registry sees it
Command(name, aliases) == [name |-> name, aliases |-> aliases]

RegOp(cmd, err, bundled) == [cmd |-> cmd, err |-> err, bundled |-> bundled]

\* an empty registry
RegInit ==
    /\ registry = EmptyMap
    /\ loaded = 0
    /\ regOp = RegOp(Command("", {}), "none", FALSE)

\* the username of the configuration the bulk creation starts from
DefaultUsername == [id |-> "", upper |-> FALSE]

\* the locals of createMassBots: usernames, the loop index i (0-based, the
\* next index to create), createdBots (session instances), the index k of
\* the session the second loop is at, and the await it is suspended in;
\* docs is the heap of `bot` sub-documents (the username each holds, the
\* first is baseConfig.bot) and configs gives, for every element of
\* createdBots, its username and the sub-document its session's config
\* refers to
MassOf(pc, usernames, i, createdBots, k) ==
    [pc |-> pc, usernames |-> usernames, i |-> i, createdBots |-> createdBots, k |-> k,
     docs |-> <<DefaultUsername>>, configs |-> << >>]

NoMass == MassOf("idle", << >>, 0, << >>, 0)

MassEvent(type, inst) == [type |-> type, inst |-> inst]

MassInit ==
    /\ mass = NoMass
    /\ massLog = << >>

NoTarget == ""

\* a call of the attack command: what it was, whether it went through to
\* its end, the signal it gave, and whether the autonomous task was running
\* when it was made
AttackOp(op, done, err, taskRan) ==
    [op |-> op, done |-> done, err |-> err, taskRan |-> taskRan]

AttackInit ==
    /\ attackInterval = FALSE
    /\ attackTarget = NoTarget
    /\ attackOp = AttackOp("new", FALSE, "none", FALSE)

PlanOp(op, name, ok, flip) == [op |-> op, name |-> name, ok |-> ok, flip |-> flip]

\* an empty plans directory
PlanInit ==
    /\ plans = EmptyMap
    /\ planOp = PlanOp("new", "", TRUE, FALSE)

ConnOp(op, inst) == [op |-> op, inst |-> inst]

\* no connection has ended yet
ConnInit ==
    /\ reconnectTimers = {}
    /\ connOp = ConnOp("new", 0)

Init ==
    SchedInit /\ SupInit /\ DispatchInit /\ NameInit /\ ProxyInit /\ TaskInit /\ RegInit
        /\ MassInit /\ AttackInit /\ PlanInit /\ ConnInit

ScheduleCommand(id, command, options) ==
    /\ ~cleaned
    /\ nextEid <= MaxEntries
    /\ LET r == scheduleCommand(Cur, nextEid, id, command, options) IN
        /\ Commit(r.s)
        /\ nextEid' = IF nextEid \in EidsInUse(r.s) \/ r.ret THEN nextEid + 1 ELSE nextEid
        /\ lastOp' = Op("schedule", id, r.ret, NoTimer, RequestClass(command, options))
    /\ UNCHANGED <<tickTimer, isRunning, tickCount, now, cleaned>>
    /\ UNCHANGED nonSchedVars

\* scheduleCommand with a single command, any timing option
ScheduleSingle ==
    \E id \in Ids, c \in SingleCommands, o \in SingleOptions : ScheduleCommand(id, c, o)

\* scheduleCommand with an array: one two-step list, any start option
ScheduleArray ==
    \E id \in Ids, c \in CoreArrayCommands, o \in ArrayOptions : ScheduleCommand(id, c, o)

\* scheduleCommand with an array: any step list, started at once or after a delay
ScheduleSequence ==
    \E id \in Ids, c \in ArrayCommands, o \in SequenceOptions : ScheduleCommand(id, c, o)

\* scheduleCommand under the one identifier "x": single command
RescheduleSingle ==
    \E c \in SingleCommands, o \in SingleOptions : ScheduleCommand("x", c, o)

\* scheduleCommand under the one identifier "x": array
RescheduleArray ==
    \E c \in CoreArrayCommands, o \in ArrayOptions : ScheduleCommand("x", c, o)

\* scheduleCommand with a single command and the ticks option
ScheduleTick ==
    \E id \in Ids, n \in 1..MaxInterval :
        ScheduleCommand(id, [isArray |-> FALSE, text |-> "cmd", steps |-> <<>>],
                        [NoOptions EXCEPT !.ticks = n])

CancelCommand ==
    \E id \in Ids :
        /\ ~cleaned
        /\ Commit(cancelCommandR(Cur, id).s)
        /\ lastOp' = Op("cancel", id, cancelCommandR(Cur, id).ret, NoTimer, "")
        /\ UNCHANGED <<tickTimer, isRunning, tickCount, now, nextEid, cleaned>>
        /\ UNCHANGED nonSchedVars

Tick ==
    /\ tickTimer
    /\ tickCount < MaxTicks
    /\ tickCount' = tickCount + 1
    /\ Commit(tick(Cur, tickCount + 1))
    /\ tickTimer' = ~tick(Cur, tickCount + 1).ex   \* an uncaught exception ends the process
    /\ lastOp' = Op("tick", "", TRUE, NoTimer, "")
    /\ UNCHANGED <<isRunning, now, nextEid, cleaned>>
    /\ UNCHANGED nonSchedVars

TimerFires ==
    \E t \in BagToSet(timers) :
        /\ t.due = now
        /\ Commit(FireTimer(Cur, t))
        /\ lastOp' = Op("fire", t.id, TRUE, t, "")
        /\ UNCHANGED <<tickTimer, isRunning, tickCount, now, nextEid, cleaned>>
        /\ UNCHANGED nonSchedVars

Advance ==
    /\ now + Quantum <= MaxTime
    /\ \A t \in BagToSet(timers) : t.due > now
    /\ now' = now + Quantum
    /\ Commit(Cur)
    /\ lastOp' = Op("advance", "", TRUE, NoTimer, "")
    /\ UNCHANGED <<tickTimer, isRunning, tickCount, nextEid, cleaned>>
    /\ UNCHANGED nonSchedVars

Cleanup ==
    /\ ~cleaned
    /\ tickTimer' = FALSE
    /\ isRunning' = FALSE
    /\ Commit(cleanup(Cur))
    /\ cleaned' = TRUE
    /\ lastOp' = Op("cleanup", "", TRUE, NoTimer, "")
    /\ UNCHANGED <<tickCount, now, nextEid>>
    /\ UNCHANGED nonSchedVars

\* ------------------------------------------------------- plan save / load
PlanNames == {"p"}

\* getScheduledCommands(): the three lists. A record of the scheduled list
\* copies command and options of the Map's record, which the trigger record
\* of a sequence does not have (undefined; JSON drops them); a record of
\* the sequences list carries the mapped steps ({command, delay}) and the
\* options of the sequence
getScheduledCommands(s) ==
    [tickBased |-> {[id |-> id, interval |-> s.tbc[id].interval] : id \in DOMAIN s.tbc},
     scheduled |-> {[id |-> id, hasCommand |-> s.sc[id].type # "sequence",
                     options |-> s.sc[id].options] : id \in DOMAIN s.sc},
     sequences |-> {[id |-> id, commands |-> s.ob[s.sq[id]].delay,
                     options |-> s.ob[s.sq[id]].options] : id \in DOMAIN s.sq}]

\* the forEach loops of loadPlan; a is [s, e]: the scheduler and the next
\* entry number
RECURSIVE CancelEach(_, _)
CancelEach(s, recs) ==
    IF recs = {} THEN s
    ELSE LET r == CHOOSE x \in recs : TRUE IN
         CancelEach(cancelCommand(s, r.id), recs \ {r})

Scheduled(a, id, command, options) ==
    LET r == scheduleCommand(a.s, a.e, id, command, options) IN
    [s |-> r.s, e |-> IF a.e \in EidsInUse(r.s) \/ r.ret THEN a.e + 1 ELSE a.e]

PlanCommand(present) ==
    [isArray |-> FALSE, text |-> IF present THEN "cmd" ELSE "", steps |-> <<>>]

RECURSIVE LoadTickBased(_, _)
LoadTickBased(a, recs) ==
    IF recs = {} THEN a
    ELSE LET r == CHOOSE x \in recs : TRUE IN
         LoadTickBased(Scheduled(a, r.id, PlanCommand(TRUE),
                                 [NoOptions EXCEPT !.ticks = r.interval]), recs \ {r})

RECURSIVE LoadScheduled(_, _)
LoadScheduled(a, recs) ==
    IF recs = {} THEN a
    ELSE LET r == CHOOSE x \in recs : TRUE IN
         LoadScheduled(Scheduled(a, r.id, PlanCommand(r.hasCommand), r.options), recs \ {r})

RECURSIVE LoadSequences(_, _)
LoadSequences(a, recs) ==
    IF recs = {} THEN a
    ELSE LET r == CHOOSE x \in recs : TRUE IN
         LoadSequences(Scheduled(a, r.id,
                                 [isArray |-> TRUE, text |-> "", steps |-> r.commands],
                                 r.options), recs \ {r})

\* loadPlan after the file has been read: cancel every listed identifier,
\* then schedule the three lists of the document
loadPlan(s, e, planData) ==
    LET cur == getScheduledCommands(s)
        c == CancelEach(CancelEach(CancelEach(s, cur.tickBased), cur.scheduled),
                        cur.sequences)
    IN LoadSequences(LoadScheduled(LoadTickBased([s |-> c, e |-> e],
                                                 planData.tickBased),
                                   planData.scheduled),
                     planData.sequences)

\* plan save <name>
SavePlan ==
    \E name \in PlanNames :
        /\ ~cleaned
        /\ plans' = MapSet(plans, name, getScheduledCommands(Cur))
        /\ planOp' = PlanOp("save", name, TRUE, ~planOp.flip)
        /\ UNCHANGED schedVars
        /\ UNCHANGED <<supVars, dispatchVars>>
        /\ UNCHANGED <<nameVars, proxyVars, taskVars, regVars, massVars, attackVars, connVars>>

\* plan load <name>
LoadPlan ==
    \E name \in PlanNames :
        /\ ~cleaned
        /\ IF ~MapHas(plans, name)
           THEN /\ planOp' = PlanOp("load", name, FALSE, ~planOp.flip)
                /\ UNCHANGED schedVars
           ELSE LET a == loadPlan(Cur, nextEid, plans[name]) IN
                /\ a.e <= MaxEntries + MaxReloaded + 1
                /\ Commit(a.s)
                /\ nextEid' = a.e
                /\ lastOp' = Op("load", name, TRUE, NoTimer, "")
                /\ planOp' = PlanOp("load", name, TRUE, ~planOp.flip)
                /\ UNCHANGED <<tickTimer, isRunning, tickCount, now, cleaned>>
        /\ UNCHANGED plans
        /\ UNCHANGED <<supVars, dispatchVars>>
        /\ UNCHANGED <<nameVars, proxyVars, taskVars, regVars, massVars, attackVars, connVars>>

\* the tick clock, observed for its first SchedTicks ticks
TickEarly == Tick /\ tickCount < SchedTicks

Next ==
    \/ ScheduleSingle
    \/ ScheduleArray
    \/ CancelCommand
    \/ TickEarly
    \/ TimerFires
    \/ Advance
    \/ Cleanup

Spec == Init /\ [][Next]_vars

\* every kind of entry scheduled, replaced and cancelled under one identifier
\* (cancelCommand is also called for an identifier that was never scheduled)
ApiNext ==
    \/ RescheduleSingle
    \/ RescheduleArray
    \/ CancelCommand
    \/ TimerFires
    \/ Advance

SpecApi == Init /\ [][ApiNext]_vars

\* the dispatcher of the session starts to throw, goes away, or recovers
HandlerChanges ==
    /\ \E h \in Handlers \ {handler} : handler' = h
    /\ lastOp' = Op("handler", "", TRUE, NoTimer, "")
    /\ UNCHANGED <<tickTimer, isRunning, tickCount, tickBasedCommands, scheduledCommands,
                   sequences, objs, timers, now, nextEid, dead, events, cleaned>>
    /\ UNCHANGED supVars
    /\ UNCHANGED utilVars

\* the commands that the entries of the session carry are plan cancel y
CommandsCancel ==
    /\ handler = "ok"
    /\ handler' = "cancels"
    /\ lastOp' = Op("handler", "", TRUE, NoTimer, "")
    /\ UNCHANGED <<tickTimer, isRunning, tickCount, tickBasedCommands, scheduledCommands,
                   sequences, objs, timers, now, nextEid, dead, events, cleaned>>
    /\ UNCHANGED supVars
    /\ UNCHANGED utilVars

\* scheduleCommand with a single command: every tick, after a delay, on a
\* cron expression or at a date
EntryOptions ==
    {[NoOptions EXCEPT !.ticks = 1],
     [NoOptions EXCEPT !.delay = Quantum],
     [NoOptions EXCEPT !.cron = ValidCron, !.repeat = TRUE],
     [NoOptions EXCEPT !.date = now + Quantum]}

ScheduleEntry ==
    \E id \in Ids, o \in EntryOptions :
        ScheduleCommand(id, [isArray |-> FALSE, text |-> "cmd", steps |-> <<>>], o)

\* tick, delay, cron and date entries cancelled by the caller or by the
\* command of an entry that fires
CancelNext ==
    \/ ScheduleEntry
    \/ CancelCommand
    \/ CommandsCancel
    \/ TickEarly
    \/ TimerFires
    \/ Advance

SpecCancel == Init /\ [][CancelNext]_vars

\* scheduleCommand with a two-step list, started at once or after a delay
SchedulePlanSteps ==
    \E id \in Ids, o \in SequenceOptions :
        ScheduleCommand(id, [isArray |-> TRUE, text |-> "", steps |-> <<0, Quantum>>], o)

\* scheduleCommand with a single command: every tick, after a delay, or at
\* a date
SchedulePlanEntry ==
    \E id \in Ids, o \in {[NoOptions EXCEPT !.ticks = 1],
                          [NoOptions EXCEPT !.delay = Quantum],
                          [NoOptions EXCEPT !.date = now + Quantum]} :
        ScheduleCommand(id, [isArray |-> FALSE, text |-> "cmd", steps |-> <<>>], o)

\* entries and sequences scheduled and fired, and the plan saved and loaded
\* in between
PlanNext ==
    \/ SchedulePlanEntry
    \/ SchedulePlanSteps
    \/ SavePlan
    \/ LoadPlan
    \/ TimerFires
    \/ Advance

SpecPlan == Init /\ [][PlanNext]_vars

\* scheduleCommand with an array of two steps, each after a wait
ScheduleSteps ==
    \E id \in {"x"} :
        ScheduleCommand(id, [isArray |-> TRUE, text |-> "", steps |-> <<Quantum, Quantum>>], NoOptions)

\* scheduleCommand with a single command fired once after a delay
ScheduleDelay ==
    \E id \in {"x"} :
        ScheduleCommand(id, [isArray |-> FALSE, text |-> "cmd", steps |-> <<>>],
                        [NoOptions EXCEPT !.delay = Quantum])

\* firings of every kind while the dispatcher fails or is absent
ErrNext ==
    \/ ScheduleTick
    \/ ScheduleSteps
    \/ ScheduleDelay
    \/ TickEarly
    \/ TimerFires
    \/ Advance
    \/ HandlerChanges

SpecErr == Init /\ [][ErrNext]_vars

\* sequences only
SeqNext ==
    \/ ScheduleSequence
    \/ CancelCommand
    \/ TimerFires
    \/ Advance

SpecSeq == Init /\ [][SeqNext]_vars

\* the tick domain only
TickNext ==
    \/ ScheduleTick
    \/ CancelCommand
    \/ Tick

SpecTick == Init /\ [][TickNext]_vars

\* ------------------------------------------------------ session supervisor
\* this.bots is a Map: a sequence of [id, inst, cm] in insertion order; cm
\* tells whether the session's commandManager property is set
BotKeys == {bots[k].id : k \in 1..Len(bots)}

BotsHas(botId) == botId \in BotKeys

BotsGet(botId) == bots[CHOOSE k \in 1..Len(bots) : bots[k].id = botId]

RECURSIVE BotsDelete(_, _)
BotsDelete(m, botId) ==
    IF m = <<>> THEN <<>>
    ELSE IF Head(m).id = botId THEN Tail(m)
    ELSE <<Head(m)>> \o BotsDelete(Tail(m), botId)

\* new HuminiBot(botId, config): its constructor builds the session's own
\* PlannedCommandManager, whose constructor starts the tick clock
NewSession(inst) == sessionTimers \cup {inst}

\* mutant: the first session becomes active also in a bulk creation
CreateBotFirstAlwaysActive ==
    \E botId \in BotIds, isMassBot \in BOOLEAN, built \in BOOLEAN :
        /\ UNCHANGED nonSupVars
        /\ UNCHANGED routed
        /\ IF BotsHas(botId) \/ ~built
           THEN /\ supOp' = CreateOp(botId, FALSE, isMassBot)
                /\ UNCHANGED <<bots, activeBot, nextInst, sessionTimers>>
           ELSE /\ nextInst <= MaxBots
                /\ bots' = Append(bots, [id |-> botId, inst |-> nextInst, cm |-> TRUE])
                /\ sessionTimers' = NewSession(nextInst)
                /\ nextInst' = nextInst + 1
                /\ activeBot' = IF Len(bots) + 1 = 1 THEN botId ELSE activeBot
                /\ supOp' = CreateOp(botId, TRUE, isMassBot)

\* createBot(botId, config, isMassBot); built tells whether saveConfig and
\* the HuminiBot constructor returned (an exception is caught: return null)
CreateBot ==
    \E botId \in BotIds, isMassBot \in BOOLEAN, built \in BOOLEAN :
        /\ UNCHANGED nonSupVars
        /\ UNCHANGED routed
        /\ IF BotsHas(botId) \/ ~built
           THEN /\ supOp' = CreateOp(botId, FALSE, isMassBot)
                /\ UNCHANGED <<bots, activeBot, nextInst, sessionTimers>>
           ELSE /\ nextInst <= MaxBots
                /\ bots' = Append(bots, [id |-> botId, inst |-> nextInst, cm |-> TRUE])
                /\ sessionTimers' = NewSession(nextInst)
                /\ nextInst' = nextInst + 1
                /\ activeBot' = IF Len(bots) + 1 = 1 /\ ~isMassBot THEN botId ELSE activeBot
                /\ supOp' = CreateOp(botId, TRUE, isMassBot)

\* mutant: the registry is not consulted
SetActiveBotUnchecked ==
    \E botId \in BotIds :
        /\ UNCHANGED nonSupVars
        /\ UNCHANGED routed
        /\ activeBot' = botId
        /\ supOp' = SupOp("setActive", botId, BotsHas(botId), FALSE)
        /\ UNCHANGED <<bots, nextInst, sessionTimers>>

\* setActiveBot(botId)
SetActiveBot ==
    \E botId \in BotIds :
        /\ UNCHANGED nonSupVars
        /\ UNCHANGED routed
        /\ IF ~BotsHas(botId)
           THEN /\ supOp' = SupOp("setActive", botId, FALSE, FALSE)
                /\ UNCHANGED <<bots, activeBot, nextInst, sessionTimers>>
           ELSE /\ activeBot' = botId
                /\ supOp' = SupOp("setActive", botId, TRUE, FALSE)
                /\ UNCHANGED <<bots, nextInst, sessionTimers>>

\* what bot.bot.quit() does: there is no quit (console-only session), it
\* returns, or it throws
QuitOutcomes == {"none", "ok", "throws"}

\* mutant: the active pointer is not repaired after the delete
RemoveBotPointerKept ==
    \E botId \in BotIds, quit \in QuitOutcomes :
        /\ UNCHANGED nonSupVars
        /\ UNCHANGED routed
        /\ IF ~BotsHas(botId)
           THEN /\ supOp' = SupOp("remove", botId, FALSE, FALSE)
                /\ UNCHANGED <<bots, activeBot, nextInst, sessionTimers>>
           ELSE /\ bots' = BotsDelete(bots, botId)
                /\ supOp' = SupOp("remove", botId, TRUE, FALSE)
                /\ UNCHANGED <<activeBot, nextInst, sessionTimers>>

\* mutant: no try/catch around quit(), its exception leaves removeBot
RemoveBotQuitUncaught ==
    \E botId \in BotIds, quit \in QuitOutcomes :
        /\ UNCHANGED nonSupVars
        /\ UNCHANGED routed
        /\ IF ~BotsHas(botId)
           THEN /\ supOp' = SupOp("remove", botId, FALSE, FALSE)
                /\ UNCHANGED <<bots, activeBot, nextInst, sessionTimers>>
           ELSE IF quit = "throws"
           THEN /\ supOp' = SupOp("remove", botId, FALSE, TRUE)
                /\ UNCHANGED <<bots, activeBot, nextInst, sessionTimers>>
           ELSE /\ bots' = BotsDelete(bots, botId)
                /\ activeBot' = IF activeBot = botId
                                THEN (IF Len(bots') > 0 THEN bots'[1].id ELSE NoBot)
                                ELSE activeBot
                /\ supOp' = SupOp("remove", botId, TRUE, FALSE)
                /\ UNCHANGED <<nextInst, sessionTimers>>

\* removeBot(botId): quit inside try/catch, delete, repair the active
\* pointer; the session's scheduler is not touched
RemoveBot ==
    \E botId \in BotIds, quit \in QuitOutcomes :
        /\ UNCHANGED nonSupVars
        /\ UNCHANGED routed
        /\ IF ~BotsHas(botId)
           THEN /\ supOp' = SupOp("remove", botId, FALSE, FALSE)
                /\ UNCHANGED <<bots, activeBot, nextInst, sessionTimers>>
           ELSE /\ bots' = BotsDelete(bots, botId)
                /\ activeBot' = IF activeBot = botId
                                THEN (IF Len(bots') > 0 THEN bots'[1].id ELSE NoBot)
                                ELSE activeBot
                /\ supOp' = SupOp("remove", botId, TRUE, FALSE)
                /\ UNCHANGED <<nextInst, sessionTimers>>

\* the commands routed to the sessions: a registered verb and an unknown one
RoutedCommands == {"help", "nosuchverb"}

\* CommandManager.executeCommand(command): true when a handler was found and
\* invoked, false otherwise; it does not throw
Dispatch(command) == command = "help"

\* executeCommand(botId, command)
executeCommandOn(m, botId, command) ==
    IF ~(\E k \in 1..Len(m) : m[k].id = botId) THEN [ret |-> FALSE, reached |-> {}]
    ELSE LET bot == m[CHOOSE k \in 1..Len(m) : m[k].id = botId] IN
         IF ~bot.cm THEN [ret |-> FALSE, reached |-> {}]
         ELSE [ret |-> Dispatch(command), reached |-> {botId}]

\* mutant: the loop is left at the first session without a command manager
RECURSIVE executeCommandOnAllStops(_, _)
executeCommandOnAllStops(m, command) ==
    IF m = <<>> THEN NoRouting
    ELSE IF ~Head(m).cm THEN [results |-> MapSet(EmptyMap, Head(m).id, FALSE), reached |-> {}]
    ELSE LET rest == executeCommandOnAllStops(Tail(m), command) IN
         [results |-> MapSet(rest.results, Head(m).id, Dispatch(command)),
          reached |-> rest.reached \cup {Head(m).id}]

\* executeCommandOnAll(command): the for loop over this.bots.entries()
RECURSIVE executeCommandOnAll(_, _)
executeCommandOnAll(m, command) ==
    IF m = <<>> THEN NoRouting
    ELSE LET rest == executeCommandOnAll(Tail(m), command) IN
         IF Head(m).cm
         THEN [results |-> MapSet(rest.results, Head(m).id, Dispatch(command)),
               reached |-> rest.reached \cup {Head(m).id}]
         ELSE [results |-> MapSet(rest.results, Head(m).id, FALSE),
               reached |-> rest.reached]

ExecuteCommand ==
    \E botId \in BotIds, command \in RoutedCommands :
        LET r == executeCommandOn(bots, botId, command) IN
        /\ supOp' = SupOp("execute", botId, r.ret, FALSE)
        /\ routed' = [results |-> EmptyMap, reached |-> r.reached]
        /\ UNCHANGED <<bots, activeBot, nextInst, sessionTimers>>
        /\ UNCHANGED nonSupVars

ExecuteCommandOnAll ==
    \E command \in RoutedCommands :
        /\ supOp' = SupOp("executeAll", command, TRUE, FALSE)
        /\ routed' = executeCommandOnAll(bots, command)
        /\ UNCHANGED <<bots, activeBot, nextInst, sessionTimers>>
        /\ UNCHANGED nonSupVars

\* the commandManager property of a registered session is cleared from
\* outside the supervisor (the property is public; the supervisor tests it)
CommandManagerLost ==
    \E k \in 1..Len(bots) :
        /\ bots[k].cm
        /\ bots' = [bots EXCEPT ![k].cm = FALSE]
        /\ supOp' = SupOp("lost", bots[k].id, TRUE, FALSE)
        /\ UNCHANGED <<activeBot, nextInst, sessionTimers, routed>>
        /\ UNCHANGED nonSupVars

SupNext ==
    \/ CreateBot
    \/ SetActiveBot
    \/ RemoveBot

SpecSup == Init /\ [][SupNext]_vars

\* the session objects constructed so far, and those still in the registry
Constructed == 1..(nextInst - 1)
Registered == {bots[k].inst : k \in 1..Len(bots)}

\* the 'end' handler that HuminiBot.createBot installs on the connection:
\* it arms setTimeout(() => this.createBot(), 5000), whatever ended the
\* connection (the server, or the quit() of removeBot) and whether or not
\* the session is still registered
EndEvent ==
    \E inst \in Constructed \ reconnectTimers :
        /\ reconnectTimers' = reconnectTimers \cup {inst}
        /\ connOp' = ConnOp("end", inst)
        /\ UNCHANGED <<coreVars, nameVars, proxyVars, taskVars>>
        /\ UNCHANGED <<regVars, massVars, attackVars, planVars>>

\* the timeout of the 'end' handler fires: this.createBot() opens a new
\* game connection for the session object
ReconnectFires ==
    \E inst \in reconnectTimers :
        /\ reconnectTimers' = reconnectTimers \ {inst}
        /\ connOp' = ConnOp("connect", inst)
        /\ UNCHANGED <<coreVars, nameVars, proxyVars, taskVars>>
        /\ UNCHANGED <<regVars, massVars, attackVars, planVars>>

\* the supervisor calls together with the connection events of the sessions
ConnNext ==
    \/ CreateBot
    \/ RemoveBot
    \/ EndEvent
    \/ ReconnectFires

SpecConn == Init /\ [][ConnNext]_vars

\* command routing over a registry that grows and shrinks
RouteNext ==
    \/ CreateBot
    \/ RemoveBot
    \/ CommandManagerLost
    \/ ExecuteCommand
    \/ ExecuteCommandOnAll

SpecRoute == Init /\ [][RouteNext]_vars

\* ---------------------------------------------------------- name generator
\* a name made by one of the five patterns, and the fallback name
\* `Player${Date.now().toString(36)}` (toString(36) is one-to-one)
PatternName(i) == [kind |-> "pattern", n |-> i]

FallbackName(t) == [kind |-> "player", n |-> t]

PatternNames == {PatternName(i) : i \in 1..NamePool}

\* what the chosen pattern() returns call after call: `first` for its first
\* k calls and `last` from then on
Draws ==
    [k : {0, 1, maxAttempts}, first : PatternNames, last : PatternNames]

Draw(d, call) == IF call < d.k THEN d.first ELSE d.last

\* the while loop of generateUsername
RECURSIVE RetryLoop(_, _, _, _)
RetryLoop(used, d, username, attempts) ==
    IF username \in used /\ attempts < maxAttempts
    THEN RetryLoop(used, d, Draw(d, attempts + 1), attempts + 1)
    ELSE [username |-> username, attempts |-> attempts]

\* generateUsername() at time t; returns the name and the ledger
generateUsername(used, d, t) ==
    LET r == RetryLoop(used, d, Draw(d, 0), 0)
        username == IF r.attempts >= maxAttempts THEN FallbackName(t) ELSE r.username
    IN [username |-> username, used |-> used \cup {username}]

\* generateUsernames(count): ds is the list of what pattern() does in each
\* call, t the time; the loop runs within one millisecond
RECURSIVE generateUsernames(_, _, _)
generateUsernames(used, ds, t) ==
    IF ds = <<>> THEN [usernames |-> <<>>, used |-> used]
    ELSE LET g == generateUsername(used, Head(ds), t)
             rest == generateUsernames(g.used, Tail(ds), t)
         IN [usernames |-> <<g.username>> \o rest.usernames, used |-> rest.used]

\* generateRandomUsername(): one name
GenerateUsername ==
    \E d \in Draws :
        /\ nameCalls < MaxNameCalls
        /\ nameCalls' = nameCalls + 1
        /\ usedNames' = generateUsername(usedNames, d, wallClock).used
        /\ issued' = <<generateUsername(usedNames, d, wallClock).username>>
        /\ UNCHANGED wallClock
        /\ UNCHANGED coreVars
        /\ UNCHANGED proxyVars
        /\ UNCHANGED <<taskVars, restVars>>

\* generateRandomUsername(count, true): a batch
GenerateUsernames ==
    \E count \in 1..MaxBatch :
      \E ds \in [1..count -> Draws] :
        /\ nameCalls < MaxNameCalls
        /\ nameCalls' = nameCalls + 1
        /\ usedNames' = generateUsernames(usedNames, ds, wallClock).used
        /\ issued' = generateUsernames(usedNames, ds, wallClock).usernames
        /\ UNCHANGED wallClock
        /\ UNCHANGED coreVars
        /\ UNCHANGED proxyVars
        /\ UNCHANGED <<taskVars, restVars>>

\* a millisecond passes
ClockAdvances ==
    /\ wallClock < MaxNameCalls
    /\ wallClock' = wallClock + 1
    /\ issued' = <<>>
    /\ UNCHANGED <<usedNames, nameCalls>>
    /\ UNCHANGED coreVars
    /\ UNCHANGED proxyVars
    /\ UNCHANGED <<taskVars, restVars>>

\* clearUsedUsernames()
ClearUsedNames ==
    /\ usedNames # {}
    /\ usedNames' = {}
    /\ issued' = <<>>
    /\ UNCHANGED <<wallClock, nameCalls>>
    /\ UNCHANGED coreVars
    /\ UNCHANGED proxyVars
    /\ UNCHANGED <<taskVars, restVars>>

NameNext ==
    \/ GenerateUsername
    \/ GenerateUsernames
    \/ ClockAdvances
    \/ ClearUsedNames

SpecNames == Init /\ [][NameNext]_vars

\* ----------------------------------------------------------- proxy manager
\* this.config.proxyRotationInterval, in the unit of proxyClock
RotationInterval == 2

\* a proxy string is the list of its colon-delimited fields (split(':'))
ProxyStrings == {<<"a", "1">>, <<"b", "1">>, <<"bad">>}

\* parseInt of a port field
ParseInt(field) == IF field = "1" THEN 1 ELSE 0

NullProxy == [host |-> "", port |-> 0, working |-> FALSE, null |-> TRUE]

\* parseProxyString(proxyString)
parseProxyString(parts) ==
    IF Len(parts) >= 2
    THEN [host |-> parts[1], port |-> ParseInt(parts[2]), working |-> TRUE, null |-> FALSE]
    ELSE NullProxy

\* this.proxies[i] for a 0-based i; outside the array it is undefined, which
\* the code treats like null
At(px, i) == IF i >= 0 /\ i < Len(px) THEN px[i + 1] ELSE NullProxy

\* mutant: the interval has to be exceeded
rotationDueStrict(last, t) == t - last > RotationInterval

\* getNextProxy: now - this.lastRotationTime >= this.rotationInterval
rotationDue(last, t) == t - last >= RotationInterval

\* rotateProxy() on state [px, cur, last] at time t; the log line reads
\* proxy.host of the new current element
rotateProxy(p, t) ==
    IF Len(p.px) = 0 THEN [p EXCEPT !.ret = NoIndex]
    ELSE LET cur == (p.cur + 1) % Len(p.px) IN
         [p EXCEPT !.last = t, !.cur = cur, !.ret = cur, !.rotated = TRUE,
                   !.threw = At(p.px, cur).null]

\* mutant: the cursor is moved on without wrapping
RECURSIVE ScanLoopNoWrap(_, _)
ScanLoopNoWrap(p, attempts) ==
    IF attempts < Len(p.px)
    THEN IF ~At(p.px, p.cur).null /\ At(p.px, p.cur).working
         THEN [p EXCEPT !.ret = p.cur, !.examined = attempts + 1]
         ELSE ScanLoopNoWrap([p EXCEPT !.cur = p.cur + 1], attempts + 1)
    ELSE [p EXCEPT !.ret = NoIndex, !.examined = attempts]

\* the while loop of getNextProxy: it leaves with the proxy at the cursor if
\* that one is working, and with null after this.proxies.length attempts
RECURSIVE ScanLoop(_, _)
ScanLoop(p, attempts) ==
    IF attempts < Len(p.px)
    THEN IF ~At(p.px, p.cur).null /\ At(p.px, p.cur).working
         THEN [p EXCEPT !.ret = p.cur, !.examined = attempts + 1]
         ELSE ScanLoop([p EXCEPT !.cur = (p.cur + 1) % Len(p.px)], attempts + 1)
    ELSE [p EXCEPT !.ret = NoIndex, !.examined = attempts]

\* getNextProxy() at time t
getNextProxy(p, t) ==
    LET r == IF rotationDue(p.last, t) THEN rotateProxy(p, t) ELSE p IN
    IF r.threw THEN r
    ELSE IF Len(r.px) = 0 THEN [r EXCEPT !.ret = NoIndex]
    ELSE ScanLoop(r, 0)

\* removeProxy(host, port): the filter callback reads proxy.host of every
\* element; on a null element it throws before this.proxies is assigned
removeProxy(p, host, port) ==
    IF \E k \in 1..Len(p.px) : p.px[k].null THEN [p EXCEPT !.threw = TRUE]
    ELSE LET kept == SelectSeq(p.px, LAMBDA q : ~(q.host = host /\ q.port = port)) IN
         IF Len(kept) < Len(p.px)
         THEN [p EXCEPT !.px = kept,
                        !.cur = IF p.cur >= Len(kept) THEN 0 ELSE p.cur,
                        !.ret = 1]
         ELSE [p EXCEPT !.px = kept, !.ret = 0]

\* the proxy manager's fields, with the result slots of a call
ProxyCur ==
    [px |-> proxies, cur |-> currentProxyIndex, last |-> lastRotationTime,
     ret |-> NoIndex, threw |-> FALSE, examined |-> 0, rotated |-> FALSE]

ProxyCommit(r, op) ==
    /\ proxies' = r.px
    /\ currentProxyIndex' = r.cur
    /\ lastRotationTime' = r.last
    /\ proxyOp' = ProxyOp(op, r.ret, r.threw, r.examined, r.rotated)
    /\ UNCHANGED proxyClock
    /\ UNCHANGED coreVars
    /\ UNCHANGED nameVars
    /\ UNCHANGED <<taskVars, restVars>>

\* initialize(proxyList) with a non-empty list and testProxiesOnInit off;
\* it is the start-up call, made once on the manager just constructed
Initialize ==
    \E n \in 1..MaxProxies :
      \E proxyList \in [1..n -> ProxyStrings] :
        /\ proxyOp.op = "new"
        /\ ProxyCommit(   [ProxyCur EXCEPT !.px = [k \in 1..n |-> parseProxyString(proxyList[k])],
                                        !.ret = 1],
                       "initialize")

\* addProxy(proxyString)
AddProxy ==
    \E s \in ProxyStrings :
        /\ Len(proxies) < MaxProxies
        /\ IF parseProxyString(s).null
           THEN ProxyCommit([ProxyCur EXCEPT !.ret = 0], "add")
           ELSE ProxyCommit([ProxyCur EXCEPT !.px = Append(@, parseProxyString(s)), !.ret = 1],
                            "add")

RemoveProxy ==
    \E s \in ProxyStrings :
        /\ Len(s) >= 2
        /\ ProxyCommit(removeProxy(ProxyCur, s[1], ParseInt(s[2])), "remove")

RotateProxy == ProxyCommit(rotateProxy(ProxyCur, proxyClock), "rotate")

GetNextProxy == ProxyCommit(getNextProxy(ProxyCur, proxyClock), "getNext")

\* testAllProxies(): every non-null element gets the result of its probe
TestAllProxies ==
    \E result \in [1..Len(proxies) -> BOOLEAN] :
        /\ proxies # <<>>
        /\ ProxyCommit([ProxyCur EXCEPT !.px = [k \in 1..Len(proxies) |->
                            IF proxies[k].null THEN proxies[k]
                            ELSE [proxies[k] EXCEPT !.working = result[k]]]],
                       "test")

ProxyClockAdvances ==
    /\ proxyClock < MaxProxyTime
    /\ proxyClock' = proxyClock + 1
    /\ proxyOp' = ProxyOp("clock", NoIndex, FALSE, 0, FALSE)
    /\ UNCHANGED <<proxies, currentProxyIndex, lastRotationTime>>
    /\ UNCHANGED coreVars
    /\ UNCHANGED nameVars
    /\ UNCHANGED <<taskVars, restVars>>

ProxyNext ==
    \/ Initialize
    \/ AddProxy
    \/ RemoveProxy
    \/ RotateProxy
    \/ GetNextProxy
    \/ TestAllProxies
    \/ ProxyClockAdvances

SpecProxy == Init /\ [][ProxyNext]_vars

\* three well-formed proxy strings and a malformed one
CursorStrings == ProxyStrings \cup {<<"c", "1">>}

\* initialize(proxyList) at any time, also on a manager that is in use: the
\* list is replaced, currentProxyIndex is not assigned
InitializeAgain ==
    \E n \in 1..MaxProxies :
      \E proxyList \in [1..n -> CursorStrings] :
        ProxyCommit([ProxyCur EXCEPT !.px = [k \in 1..n |-> parseProxyString(proxyList[k])],
                                     !.ret = 1],
                    "initialize")

\* addProxy(proxyString), any of the strings
AddAnyProxy ==
    \E s \in CursorStrings :
        /\ Len(proxies) < MaxProxies
        /\ IF parseProxyString(s).null
           THEN ProxyCommit([ProxyCur EXCEPT !.ret = 0], "add")
           ELSE ProxyCommit([ProxyCur EXCEPT !.px = Append(@, parseProxyString(s)), !.ret = 1],
                            "add")

\* removeProxy(host, port), any of the well-formed strings
RemoveAnyProxy ==
    \E s \in CursorStrings :
        /\ Len(s) >= 2
        /\ ProxyCommit(removeProxy(ProxyCur, s[1], ParseInt(s[2])), "remove")

\* the calls that move the cursor or change the list, in any order
CursorNext ==
    \/ InitializeAgain
    \/ AddAnyProxy
    \/ RemoveAnyProxy
    \/ RotateProxy
    \/ GetNextProxy

SpecCursor == Init /\ [][CursorNext]_vars

\* --------------------------------------------------- autonomous task pause
\* a resume timer of task instance inst; the handle kept in
\* task.clearLaggTimeout is the due time (0: null)
ResumeTimer(inst, due) == [inst |-> inst, due |-> due]

TaskCur == [task |-> blockQuestTask, tm |-> taskTimers]

\* clearTimeout(task.clearLaggTimeout)
ClearTimeout(T) ==
    IF BagIn(ResumeTimer(T.task.inst, T.task.clearLaggTimeout), T.tm)
    THEN T.tm (-) SetToBag({ResumeTimer(T.task.inst, T.task.clearLaggTimeout)})
    ELSE T.tm

\* mutant: the pending timeout is not cleared before the new one is set
pauseForClearLaggKeepsOld(T, seconds, t) ==
    IF T.task = NoTask THEN T
    ELSE LET due == t + (seconds + ResumeBufferSeconds) * 1000 IN
         [task |-> [T.task EXCEPT !.clearLaggPaused = TRUE, !.clearLaggTimeout = due],
          tm |-> T.tm (+) SetToBag({ResumeTimer(T.task.inst, due)})]

\* pauseForClearLagg(bot, seconds) at time t
pauseForClearLagg(T, seconds, t) ==
    IF T.task = NoTask THEN T
    ELSE LET due == t + (seconds + ResumeBufferSeconds) * 1000
             cleared == IF T.task.clearLaggTimeout # 0 THEN ClearTimeout(T) ELSE T.tm
         IN [task |-> [T.task EXCEPT !.clearLaggPaused = TRUE, !.clearLaggTimeout = due],
             tm |-> cleared (+) SetToBag({ResumeTimer(T.task.inst, due)})]

\* resumeAfterClearLagg(bot)
resumeAfterClearLagg(T) ==
    IF T.task = NoTask THEN T
    ELSE [task |-> [T.task EXCEPT !.clearLaggPaused = FALSE, !.clearLaggTimeout = 0],
          tm |-> IF T.task.clearLaggTimeout # 0 THEN ClearTimeout(T) ELSE T.tm]

\* handleServerMessage(bot, message); msg tells which of the two pattern
\* groups the text matches and the number before " seconds" (if any)
handleServerMessage(T, msg, t) ==
    IF T.task = NoTask THEN T
    ELSE LET seconds == IF msg.seconds # NoSeconds THEN msg.seconds
                        ELSE DefaultClearLaggSeconds
             a == IF msg.warning THEN pauseForClearLagg(T, seconds, t) ELSE T
         IN IF msg.done THEN resumeAfterClearLagg(a) ELSE a

\* the 'message' event: every registered listener calls handleServerMessage
RECURSIVE EmitMessage(_, _, _, _)
EmitMessage(T, msg, t, n) ==
    IF n = 0 THEN T ELSE EmitMessage(handleServerMessage(T, msg, t), msg, t, n - 1)

\* stopBlockQuest(bot)
stopBlockQuest(T) ==
    IF T.task = NoTask THEN T
    ELSE [task |-> NoTask,
          tm |-> IF T.task.clearLaggTimeout # 0 THEN ClearTimeout(T) ELSE T.tm]

\* ---------------------------------------------------- autonomous task loop
\* the state a loop step works on; acts and ev collect what the step did
LoopCur ==
    [task |-> blockQuestTask, tm |-> taskTimers, loops |-> loops, stopped |-> stopped,
     ls |-> listeners, orig |-> originalHandler, threw |-> FALSE,
     acts |-> {}, ev |-> "none"]

\* bot._events.message of an emitter with n listeners: undefined, the
\* listener itself, or the array of the listeners
EventsMessage(n) == IF n = 0 THEN "none" ELSE IF n = 1 THEN "function" ELSE "array"

\* registerClearLaggDetection(bot)
registerClearLaggDetection(S) ==
    [S EXCEPT !.orig = EventsMessage(S.ls), !.ls = @ + 1]

\* unregisterClearLaggDetection(bot): removeListener is handed a function
\* that was never registered and removes nothing; a saved function is
\* added as a listener once more, a saved array makes bot.on throw
unregisterClearLaggDetection(S) ==
    CASE S.orig = "function" -> [S EXCEPT !.ls = @ + 1, !.orig = "none"]
      [] S.orig = "array" -> [S EXCEPT !.threw = TRUE]
      [] OTHER -> S

\* "Display stats if we had any activity"
StatsShown(L) == L.currentCount > 0

\* stopBlockQuest(bot) with its effect on the task object and on the log
stopBlockQuestOn(S) ==
    IF S.task = NoTask THEN S
    ELSE LET i == S.task.inst
             r == stopBlockQuest([task |-> S.task, tm |-> S.tm])
             u == unregisterClearLaggDetection(S)
         IN IF u.threw
            THEN [u EXCEPT !.task.running = FALSE, !.tm = r.tm,
                           !.loops[i].running = FALSE]
            ELSE [u EXCEPT !.task = r.task, !.tm = r.tm,
                           !.loops[i].running = FALSE,
                           !.stopped = StopOf(i, StatsShown(S.loops[i]))]

\* the game actions of the loop
GameActions == {"equip", "look", "place", "break", "reposition"}

Does(S, act) == [S EXCEPT !.acts = @ \cup {act}]

Goto(S, i, pc) == [S EXCEPT !.loops[i].pc = pc]

\* moveToNewLocation(bot, distance) on a session whose pathfinder plugin is
\* loaded: the goal is set, then the loop waits for the move to end
moveToNewLocation(S, i) == Goto(Does(S, "reposition"), i, "moving")

\* "task.stats.failed++; if (task.stats.failed % 3 === 0) moveToNewLocation",
\* then the wait before retrying (after a failed place or a failed break)
Failed(S, i, ev) ==
    LET run == IF ev = "placeFailed" THEN S.loops[i].placeRun + 1 ELSE S.loops[i].placeRun
        a == [S EXCEPT !.loops[i].failed = @ + 1, !.loops[i].placeRun = run, !.ev = ev]
    IN IF a.loops[i].failed % 3 = 0 THEN moveToNewLocation(a, i) ELSE Goto(a, i, "retry")

\* what a step can meet; a failure is drawn only below the bound
CycleOutcomes == {"noBlocks", "noPosition", "exception", "position"}
StepOutcomes == {"ok", "throws", "missing"}
Failing == {"noPosition", "exception", "throws", "missing"}

MayMeet(L, o) == o \in Failing => L.failed < MaxFailed

\* mutant: no try/catch around the cycle, an exception leaves the loop
CycleUncaught(S, i, o) ==
    LET L == S.loops[i] IN
    IF ~(L.running /\ L.currentCount < L.targetTimes)
    THEN LET a == IF L.running /\ L.currentCount >= L.targetTimes
                  THEN [stopBlockQuestOn(S) EXCEPT !.ev = "completed"]
                  ELSE [S EXCEPT !.ev = "exit"]
         IN [a EXCEPT !.loops[i] = Finished]
    ELSE IF S.task.clearLaggPaused THEN Goto([S EXCEPT !.ev = "paused"], i, "paused")
    ELSE CASE o = "noBlocks" -> Goto([S EXCEPT !.ev = o], i, "noBlocks")
           [] o = "noPosition" ->
                moveToNewLocation([S EXCEPT !.loops[i].failed = @ + 1, !.ev = o], i)
           [] o = "exception" -> [S EXCEPT !.loops[i] = Finished, !.ev = o]
           [] OTHER -> Goto([S EXCEPT !.ev = o], i, "beforePlace")

\* the while condition and the cycle up to its first wait
Cycle(S, i, o) ==
    LET L == S.loops[i] IN
    IF ~(L.running /\ L.currentCount < L.targetTimes)
    THEN LET a == IF L.running /\ L.currentCount >= L.targetTimes
                  THEN [stopBlockQuestOn(S) EXCEPT !.ev = "completed"]
                  ELSE [S EXCEPT !.ev = "exit"]
         IN [a EXCEPT !.loops[i] = Finished]
    ELSE IF S.task.clearLaggPaused THEN Goto([S EXCEPT !.ev = "paused"], i, "paused")
    ELSE CASE o = "noBlocks" -> Goto([S EXCEPT !.ev = o], i, "noBlocks")
           [] o = "noPosition" ->
                moveToNewLocation([S EXCEPT !.loops[i].failed = @ + 1, !.ev = o], i)
           [] o = "exception" ->
                Goto([S EXCEPT !.loops[i].failed = @ + 1, !.ev = o], i, "retry")
           [] OTHER -> Goto([S EXCEPT !.ev = o], i, "beforePlace")

\* mutant: the cycle is counted when the block is placed, not when it is broken
ResumeCountsPlacement(S, i, o) ==
    LET pc == S.loops[i].pc IN
    CASE pc \in {"paused", "noBlocks", "retry", "cycle"} -> Cycle(S, i, o)
      [] pc = "moving" -> Goto(S, i, "retry")
      \* placeBlockFast
      [] pc = "beforePlace" ->
            IF o = "missing" THEN Failed(S, i, "placeFailed")
            ELSE IF o = "throws" THEN Failed(Does(S, "equip"), i, "placeFailed")
            ELSE Goto(Does(S, "equip"), i, "afterEquip")
      [] pc = "afterEquip" ->
            IF o = "throws" THEN Failed(Does(S, "look"), i, "placeFailed")
            ELSE Goto(Does(S, "look"), i, "afterLook")
      [] pc = "afterLook" ->
            IF o = "throws" THEN Failed(Does(S, "place"), i, "placeFailed")
            ELSE Goto([Does(S, "place") EXCEPT !.loops[i].placed = @ + 1,
                                               !.loops[i].currentCount = @ + 1,
                                               !.loops[i].placeRun = 0, !.ev = "placed"],
                    i, "beforeBreak")
      \* breakBlockFast
      [] pc = "beforeBreak" ->
            IF o = "missing" THEN Failed(S, i, "breakFailed")
            ELSE IF o = "throws" THEN Failed(Does(S, "look"), i, "breakFailed")
            ELSE Goto(Does(S, "look"), i, "breakLook")
      [] pc = "breakLook" ->
            IF o = "throws" THEN Failed(Does(S, "equip"), i, "breakFailed")
            ELSE IF o = "missing"
                 THEN Goto([Does(S, "break") EXCEPT !.loops[i].broken = @ + 1,
                                                  !.ev = "broken"], i, "cycle")
                 ELSE Goto(Does(S, "equip"), i, "breakEquip")
      [] pc = "breakEquip" ->
            IF o = "throws" THEN Failed(Does(S, "break"), i, "breakFailed")
            ELSE Goto([Does(S, "break") EXCEPT !.loops[i].broken = @ + 1,
                                             !.ev = "broken"], i, "cycle")
      [] OTHER -> S

\* the loop resumes from the wait it is suspended in
Resume(S, i, o) ==
    LET pc == S.loops[i].pc IN
    CASE pc \in {"paused", "noBlocks", "retry", "cycle"} -> Cycle(S, i, o)
      [] pc = "moving" -> Goto(S, i, "retry")
      \* placeBlockFast
      [] pc = "beforePlace" ->
            IF o = "missing" THEN Failed(S, i, "placeFailed")
            ELSE IF o = "throws" THEN Failed(Does(S, "equip"), i, "placeFailed")
            ELSE Goto(Does(S, "equip"), i, "afterEquip")
      [] pc = "afterEquip" ->
            IF o = "throws" THEN Failed(Does(S, "look"), i, "placeFailed")
            ELSE Goto(Does(S, "look"), i, "afterLook")
      [] pc = "afterLook" ->
            IF o = "throws" THEN Failed(Does(S, "place"), i, "placeFailed")
            ELSE Goto([Does(S, "place") EXCEPT !.loops[i].placed = @ + 1,
                                               !.loops[i].placeRun = 0, !.ev = "placed"],
                    i, "beforeBreak")
      \* breakBlockFast
      [] pc = "beforeBreak" ->
            IF o = "missing" THEN Failed(S, i, "breakFailed")
            ELSE IF o = "throws" THEN Failed(Does(S, "look"), i, "breakFailed")
            ELSE Goto(Does(S, "look"), i, "breakLook")
      [] pc = "breakLook" ->
            IF o = "throws" THEN Failed(Does(S, "equip"), i, "breakFailed")
            ELSE IF o = "missing"
                 THEN Goto([Does(S, "break") EXCEPT !.loops[i].broken = @ + 1,
                                                  !.loops[i].currentCount = @ + 1,
                                                  !.ev = "broken"], i, "cycle")
                 ELSE Goto(Does(S, "equip"), i, "breakEquip")
      [] pc = "breakEquip" ->
            IF o = "throws" THEN Failed(Does(S, "break"), i, "breakFailed")
            ELSE Goto([Does(S, "break") EXCEPT !.loops[i].broken = @ + 1,
                                             !.loops[i].currentCount = @ + 1,
                                             !.ev = "broken"], i, "cycle")
      [] OTHER -> S

\* the outcomes a loop suspended at pc can meet
OutcomesAt(pc) ==
    CASE pc \in {"paused", "noBlocks", "retry", "cycle"} -> CycleOutcomes
      [] pc = "moving" -> {"ok"}
      [] pc \in {"afterEquip", "afterLook", "breakEquip"} -> {"ok", "throws"}
      [] OTHER -> StepOutcomes

LoopCommit(S, i, ran) ==
    /\ listeners' = S.ls
    /\ originalHandler' = S.orig
    /\ blockQuestTask' = S.task
    /\ taskTimers' = S.tm
    /\ loops' = S.loops
    /\ stopped' = S.stopped
    /\ loopOp' = LoopOp(i, S.acts, S.ev, ran)

\* a pending wait of a loop completes
LoopResumes ==
    \E i \in DOMAIN loops :
        /\ loops[i].pc # "done"
        /\ \E o \in OutcomesAt(loops[i].pc) :
            /\ MayMeet(loops[i], o)
            /\ LoopCommit(Resume(LoopCur, i, o), i, loops[i].running)
        /\ taskOp' = TaskOp("loop", NoMessage, taskOp.warnedAt, taskOp.warned)
        /\ UNCHANGED <<taskNow, taskStarts>>
        /\ UNCHANGED coreVars
        /\ UNCHANGED <<nameVars, proxyVars, restVars>>

\* server messages: text that matches the warning patterns, the completion
\* patterns, both or neither, with or without a number of seconds
Messages ==
    [warning : BOOLEAN, done : BOOLEAN, seconds : {NoSeconds} \cup 0..MaxAnnounced]

\* execute(bot, [block, times]): stop the running task, then startBlockQuest;
\* unregisterClearLaggDetection hands removeListener a new function, so the
\* listener of the stopped task stays registered; an exception of the stop
\* leaves execute before the start
\* startBlockQuest runs the loop up to its first wait; the command asks for
\* one of targets cycles and the first cycle meets one of outcomes
StartBlockQuestOf(targets, outcomes) ==
    /\ taskStarts < MaxTaskStarts
    /\ LET i == taskStarts + 1
           a == stopBlockQuestOn(LoopCur)
       IN IF a.threw
          THEN /\ LoopCommit(a, blockQuestTask.inst, FALSE)
               /\ UNCHANGED taskStarts
          ELSE /\ taskStarts' = i
               /\ \E times \in targets, o \in outcomes :
                    LET b == [a EXCEPT !.task = [inst |-> i, running |-> TRUE,
                                                 clearLaggPaused |-> FALSE,
                                                 clearLaggTimeout |-> 0],
                                       !.loops = Append(@, LoopOf(times, "cycle"))]
                    IN LoopCommit(Cycle(registerClearLaggDetection(b), i, o), i, TRUE)
    /\ taskOp' = TaskOp("start", NoMessage, 0, NoSeconds)
    /\ UNCHANGED taskNow
    /\ UNCHANGED coreVars
    /\ UNCHANGED <<nameVars, proxyVars, restVars>>

StartBlockQuest == StartBlockQuestOf(1..MaxTarget, CycleOutcomes)

\* blockquest <block> 1 on a session that holds the block: the first cycle
\* finds a position, or throws
StartOneCycle == StartBlockQuestOf({1}, {"position", "exception"})

\* blockquest stop, or the loop reaching its target count
StopBlockQuest ==
    /\ blockQuestTask # NoTask
    /\ blockQuestTask' = stopBlockQuestOn(LoopCur).task
    /\ taskTimers' = stopBlockQuestOn(LoopCur).tm
    /\ loops' = stopBlockQuestOn(LoopCur).loops
    /\ stopped' = stopBlockQuestOn(LoopCur).stopped
    /\ listeners' = stopBlockQuestOn(LoopCur).ls
    /\ originalHandler' = stopBlockQuestOn(LoopCur).orig
    /\ taskOp' = TaskOp("stop", NoMessage, 0, NoSeconds)
    /\ UNCHANGED <<taskNow, taskStarts, loopOp>>
    /\ UNCHANGED coreVars
    /\ UNCHANGED <<nameVars, proxyVars, restVars>>

\* the server sends a chat message, one of msgs
ServerMessageOf(msgs) ==
    \E msg \in msgs :
        /\ listeners > 0
        /\ blockQuestTask' = EmitMessage(TaskCur, msg, taskNow, listeners).task
        /\ taskTimers' = EmitMessage(TaskCur, msg, taskNow, listeners).tm
        /\ taskOp' = IF msg.warning /\ blockQuestTask # NoTask
                     THEN TaskOp("message", msg, taskNow, msg.seconds)
                     ELSE TaskOp("message", msg, taskOp.warnedAt, taskOp.warned)
        /\ UNCHANGED <<taskNow, listeners, originalHandler, taskStarts, loopVars>>
        /\ UNCHANGED coreVars
        /\ UNCHANGED <<nameVars, proxyVars, restVars>>

ServerMessage == ServerMessageOf(Messages)

\* the two messages of a cleanup: the warning (no number in its text) and
\* the completion
CleanupMessages ==
    {[warning |-> TRUE, done |-> FALSE, seconds |-> NoSeconds],
     [warning |-> FALSE, done |-> TRUE, seconds |-> NoSeconds]}

CleanupMessage == ServerMessageOf(CleanupMessages)

\* a resume timer comes due: its callback is resumeAfterClearLagg(bot)
ResumeTimerFires ==
    \E t \in BagToSet(taskTimers) :
        /\ t.due = taskNow
        /\ LET fired == [task |-> blockQuestTask, tm |-> taskTimers (-) SetToBag({t})] IN
            /\ blockQuestTask' = resumeAfterClearLagg(fired).task
            /\ taskTimers' = resumeAfterClearLagg(fired).tm
        /\ taskOp' = TaskOp("resume", NoMessage, taskOp.warnedAt, taskOp.warned)
        /\ UNCHANGED <<taskNow, listeners, originalHandler, taskStarts, loopVars>>
        /\ UNCHANGED coreVars
        /\ UNCHANGED <<nameVars, proxyVars, restVars>>

\* a second passes (no timer is due)
TaskClockAdvances ==
    /\ taskNow < MaxTaskSeconds * 1000
    /\ \A t \in BagToSet(taskTimers) : t.due > taskNow
    /\ taskNow' = taskNow + 1000
    /\ taskOp' = TaskOp("clock", NoMessage, taskOp.warnedAt, taskOp.warned)
    /\ UNCHANGED <<blockQuestTask, taskTimers, listeners, originalHandler, taskStarts, loopVars>>
    /\ UNCHANGED coreVars
    /\ UNCHANGED <<nameVars, proxyVars, restVars>>

TaskNext ==
    \/ StartOneCycle
    \/ StopBlockQuest
    \/ ServerMessage
    \/ ResumeTimerFires
    \/ TaskClockAdvances

SpecTask == Init /\ [][TaskNext]_vars

\* blockquest <block> <times> on a session that has run no task yet
StartOnlyTask == taskStarts = 0 /\ StartBlockQuest

\* the loop of one task, with the server's cleanup messages and the stop
\* command; a pending wait of the loop completes
ExitNext ==
    \/ StartOnlyTask
    \/ StopBlockQuest
    \/ CleanupMessage
    \/ LoopResumes

SpecExit == Init /\ [][ExitNext]_vars /\ WF_vars(LoopResumes)

\* the loops of the tasks of a session between its commands
LoopNext ==
    \/ StartBlockQuest
    \/ StopBlockQuest
    \/ LoopResumes

SpecLoop == Init /\ [][LoopNext]_vars

\* -------------------------------------------------------- command registry
\* the commands of the exported list whose files are at hand, in the order
\* of the list, with the name and aliases each file declares
BundledCommands ==
    << Command("blockquest", {"bq", "blockq"}),
       Command("bot", {"bots", "multibot"}),
       Command("plan", {"schedule", "planned"}),
       Command("attack", {"fight", "kill"}),
       Command("gui", {"screen", "window", "inventory"}),
       Command("inventory", {"inv", "items"}) >>

\* the verb and the aliases of a command
Words(cmd) == {cmd.name} \cup cmd.aliases

\* commands registered besides the bundled ones; their words are not words
\* of the list
ExtraWords == {"look", "l", "scan"}
ExtraCommands ==
    {Command(n, a) : n \in ExtraWords, a \in SUBSET ExtraWords} \ 
        {c \in {Command(n, a) : n \in ExtraWords, a \in SUBSET ExtraWords} :
            c.name \in c.aliases}

\* register(spec)
register(reg, cmd) ==
    IF Words(cmd) \cap DOMAIN reg # {}
    THEN [reg |-> reg, err |-> "DuplicateVerb"]
    ELSE [reg |-> [w \in (DOMAIN reg) \cup Words(cmd) |->
                      IF w \in Words(cmd) THEN cmd.name ELSE reg[w]],
          err |-> "none"]

\* loadCommands(commands), one command of the list after the other
LoadNextCommand ==
    /\ loaded < Len(BundledCommands)
    /\ loaded' = loaded + 1
    /\ registry' = register(registry, BundledCommands[loaded + 1]).reg
    /\ regOp' = RegOp(BundledCommands[loaded + 1],
                      register(registry, BundledCommands[loaded + 1]).err, TRUE)
    /\ UNCHANGED coreVars
    /\ UNCHANGED <<nameVars, proxyVars, taskVars, massVars, attackVars, planVars, connVars>>

\* register of a command that is not in the list
RegisterCommand ==
    \E cmd \in ExtraCommands :
        /\ registry' = register(registry, cmd).reg
        /\ regOp' = RegOp(cmd, register(registry, cmd).err, FALSE)
        /\ UNCHANGED loaded
        /\ UNCHANGED coreVars
        /\ UNCHANGED <<nameVars, proxyVars, taskVars, massVars, attackVars, planVars, connVars>>

RegNext == LoadNextCommand \/ RegisterCommand

SpecReg == Init /\ [][RegNext]_vars

\* ------------------------------------------------------------ bulk creation
\* the names generateRandomUsername may return: names that differ only in
\* the case of their letters are different names
MassNames == {[id |-> b, upper |-> u] : b \in BotIds, u \in BOOLEAN}

\* `mass_${username.toLowerCase()}`
MassBotId(username) == username.id

\* what a chat(...) call of a session does
ChatOutcomes == {"sent", "throws"}

\* baseConfig = JSON.parse(JSON.stringify(defaultConfig)): a new document
\* whose `bot` field refers to the first sub-document of the heap
baseConfig == [bot |-> 1, quietMode |-> FALSE]

\* { ...baseConfig }: a new object with the fields of baseConfig; its `bot`
\* field refers to the sub-document baseConfig.bot refers to
SpreadCopy(config) == config

MassCur ==
    [bots |-> bots, nextInst |-> nextInst, sessionTimers |-> sessionTimers,
     mass |-> mass, log |-> massLog]

\* the second loop moves to the next element of createdBots, or the function
\* returns
NextCreated(S) ==
    IF S.mass.k < Len(S.mass.createdBots)
    THEN [S EXCEPT !.mass.k = @ + 1, !.mass.pc = "register"]
    ELSE [S EXCEPT !.mass.pc = "done"]

\* the first loop from index S.mass.i on, up to its next await: built[j]
\* tells whether saveConfig and the constructor return for the j-th name;
\* after the loop, the second loop up to its first await
RECURSIVE CreateLoop(_, _)
CreateLoop(S, built) ==
    IF S.mass.i >= Len(S.mass.usernames)
    THEN NextCreated([S EXCEPT !.mass.k = 0])
    ELSE LET username == S.mass.usernames[S.mass.i + 1]
             botId == MassBotId(username)
             has == \E j \in 1..Len(S.bots) : S.bots[j].id = botId
             botConfig == [SpreadCopy(baseConfig) EXCEPT !.quietMode = TRUE]
             T == [S EXCEPT !.mass.docs[botConfig.bot] = username]
         IN IF has \/ ~built[S.mass.i + 1]
            THEN CreateLoop([T EXCEPT !.mass.i = @ + 1], built)
            ELSE [T EXCEPT
                    !.bots = Append(@, [id |-> botId, inst |-> S.nextInst, cm |-> TRUE]),
                    !.sessionTimers = @ \cup {S.nextInst},
                    !.nextInst = @ + 1,
                    !.mass.createdBots = Append(@, S.nextInst),
                    !.mass.configs = Append(@, [username |-> username, bot |-> botConfig.bot]),
                    !.mass.i = @ + 1,
                    !.mass.pc = "created",
                    !.log = Append(@, MassEvent("created", S.nextInst))]

\* the session the second loop is at
MassAt(S) == S.mass.createdBots[S.mass.k]

\* the function resumes from the await it is suspended in and runs to its
\* next await or to its end
MassResume(S, built, chat) ==
    IF S.mass.pc = "created" THEN CreateLoop(S, built)
    ELSE IF S.mass.pc = "register"
    THEN IF chat = "sent"
         THEN [S EXCEPT !.log = Append(@, MassEvent("register", MassAt(S))),
                        !.mass.pc = "login"]
         ELSE NextCreated(S)
    ELSE IF S.mass.pc = "login"
    THEN IF chat = "sent"
         THEN NextCreated([S EXCEPT !.log = Append(@, MassEvent("login", MassAt(S)))])
         ELSE NextCreated(S)
    ELSE S

MassCommit(S) ==
    /\ bots' = S.bots
    /\ nextInst' = S.nextInst
    /\ sessionTimers' = S.sessionTimers
    /\ mass' = S.mass
    /\ massLog' = S.log
    /\ supOp' = IF Len(S.bots) > Len(bots)
                THEN CreateOp(S.bots[Len(S.bots)].id, TRUE, TRUE)
                ELSE supOp
    /\ UNCHANGED <<activeBot, routed>>
    /\ UNCHANGED <<schedVars, dispatchVars>>
    /\ UNCHANGED <<nameVars, proxyVars, taskVars, regVars, attackVars, planVars, connVars>>

\* bot mass <count>: count <= 0 is refused; otherwise the names are drawn
\* and the function runs to its first await
CreateMassBots ==
    \E count \in 0..MaxBatch :
      \E usernames \in [1..count -> MassNames], built \in [1..MaxBatch -> BOOLEAN] :
        /\ mass.pc = "idle"
        /\ nextInst + count <= MaxBots + 1
        /\ IF count <= 0
           THEN MassCommit(MassCur)
           ELSE MassCommit(CreateLoop([MassCur EXCEPT
                    !.mass = MassOf("created", usernames, 0, << >>, 0)], built))

\* the timer the function waits for fires
MassResumes ==
    \E built \in [1..MaxBatch -> BOOLEAN], chat \in ChatOutcomes :
        /\ mass.pc \in {"created", "register", "login"}
        /\ MassCommit(MassResume(MassCur, built, chat))

MassNext ==
    \/ CreateBot
    \/ CreateMassBots
    \/ MassResumes

SpecMass == Init /\ [][MassNext]_vars

\* -------------------------------------------------------------- attack loop
AttackTargets == {"steve"}

\* the autonomous task of the session is running
TaskRunning == blockQuestTask # NoTask /\ blockQuestTask.running

AttackUnchanged ==
    /\ UNCHANGED coreVars
    /\ UNCHANGED <<nameVars, proxyVars, taskVars, regVars, massVars, planVars, connVars>>

\* attack <username>: pvp tells whether the pvp plugin is loaded, inRange
\* whether bot.players[username].entity exists; the existing attack is
\* stopped and the two intervals are set
StartAttacking ==
    \E username \in AttackTargets, pvp \in BOOLEAN, inRange \in BOOLEAN :
        /\ IF ~pvp \/ ~inRange
           THEN /\ attackOp' = AttackOp("start", FALSE, "none", TaskRunning)
                /\ UNCHANGED <<attackInterval, attackTarget>>
           ELSE /\ attackInterval' = TRUE
                /\ attackTarget' = username
                /\ attackOp' = AttackOp("start", TRUE, "none", TaskRunning)
        /\ AttackUnchanged

\* attack stop
StopAttacking ==
    /\ attackInterval' = FALSE
    /\ attackTarget' = NoTarget
    /\ attackOp' = AttackOp("stop", TRUE, "none", TaskRunning)
    /\ AttackUnchanged

\* the attack interval fires: the target is lost (stopAttacking) or
\* performCombatActions looks at it, moves and attacks
AttackIntervalFires ==
    \E inRange \in BOOLEAN :
        /\ attackInterval
        /\ IF ~inRange
           THEN /\ attackInterval' = FALSE
                /\ attackTarget' = NoTarget
                /\ attackOp' = AttackOp("lost", TRUE, "none", TaskRunning)
           ELSE /\ attackOp' = AttackOp("combat", TRUE, "none", TaskRunning)
                /\ UNCHANGED <<attackInterval, attackTarget>>
        /\ AttackUnchanged

\* blockquest start 1 on a session that has run no task yet
StartFirstTask == taskStarts = 0 /\ StartOneCycle

\* one session with both continuous handlers
BusyNext ==
    \/ StartAttacking
    \/ StopAttacking
    \/ AttackIntervalFires
    \/ StartFirstTask
    \/ StopBlockQuest
    \/ LoopResumes

SpecBusy == Init /\ [][BusyNext]_vars

\* ================================================================ claims
AllKeys == (DOMAIN tickBasedCommands) \cup (DOMAIN scheduledCommands) \cup (DOMAIN sequences)

TimerSet == BagToSet(timers)

Dispatches(evs) == {evs[k] : k \in {j \in 1..Len(evs) : evs[j].type = "dispatch"}}

RECURSIVE SumTo(_, _)
SumTo(q, n) == IF n = 0 THEN 0 ELSE q[n] + SumTo(q, n - 1)

\* C1: after scheduleCommand(id, ...) has returned true, everything that is
\* live under id (map records and timers) belongs to the entry just created:
\* the replaced entry left no record and no timer behind.
C1_ReplaceLeavesOnlyTheNewEntry ==
    (lastOp.op = "schedule" /\ lastOp.ret) =>
        /\ EidsUnder(Cur, lastOp.id) \subseteq {nextEid - 1}
        /\ \A t \in TimerSet : t.id = lastOp.id => t.eid = nextEid - 1

\* C2: once cleanup() has returned, no timer and no interval of the scheduler
\* is outstanding, and nothing is dispatched any more.
C2_CleanupLeavesNoTimers ==
    cleaned => /\ timers = EmptyBag
               /\ ~tickTimer
               /\ (lastOp.op # "cleanup" => events = <<>>)

\* C3: a sequence that cancelCommand was aimed at dispatches no later step:
\* every step k+1 (k >= 1) that is dispatched belongs to a sequence that was
\* not cancelled before that dispatch.
C3_CancelledSequenceDispatchesNothing ==
    [][\A ev \in Dispatches(events') : ev.arg >= 2 => ev.eid \notin dead]_vars

\* C4: in a non-repeating sequence of (command, delay) pairs, step i is
\* dispatched exactly when the caller-given delays of steps 1..i have elapsed
\* since the start of the run, and the sequence is gone from the scheduler
\* once its last step has been dispatched.
C4_StepsFireAtCumulativeGivenDelays ==
    [][\A ev \in Dispatches(events') :
          (/\ ev.arg > 0
           /\ ev.eid \in DOMAIN objs
           /\ objs[ev.eid].isRunning
           /\ ev.eid \notin dead
           /\ ~objs[ev.eid].repeat
           /\ \A i \in 1..Len(objs[ev.eid].given) : objs[ev.eid].given[i] # NoDelay)
          => /\ now' = objs[ev.eid].runStart + SumTo(objs[ev.eid].given, ev.arg)
             /\ ev.arg = Len(objs[ev.eid].given)
                   => \A id \in DOMAIN sequences' : sequences'[id] # ev.eid]_vars

\* C5 (as claimed): a tick entry with interval N has fired floor(M/N) times
\* after M ticks, whatever the counter was when it was scheduled.
C5_FiredIsTicksOverInterval ==
    \A id \in DOMAIN tickBasedCommands :
        LET c == tickBasedCommands[id] IN
        c.fired = (tickCount - c.t0) \div c.interval

\* C5 (amended): a tick entry with interval N scheduled at counter value T0
\* has fired floor((T0+M)/N) - floor(T0/N) times after M ticks, which is
\* floor(M/N) when T0 is a multiple of N.
C5_FiredCountsMultiplesOfInterval ==
    \A id \in DOMAIN tickBasedCommands :
        LET c == tickBasedCommands[id] IN
        /\ c.fired = (tickCount \div c.interval) - (c.t0 \div c.interval)
        /\ c.t0 % c.interval = 0 => c.fired = (tickCount - c.t0) \div c.interval

C5_Witness ==
    \E id \in DOMAIN tickBasedCommands :
        LET c == tickBasedCommands[id] IN
        /\ c.t0 % c.interval # 0
        /\ tickCount - c.t0 >= c.interval
        /\ c.fired >= 1
        /\ c.fired # (tickCount - c.t0) \div c.interval

\* C6: when the job of a cron entry scheduled with repeat=false fires, this
\* is the first matching time after the entry was created, the command is
\* dispatched once, and afterwards the entry is in no list of
\* getScheduledCommands() and has no job left that could fire again.
C6_OneShotCronFiresOnceThenAbsent ==
    [][(lastOp'.op = "fire" /\ lastOp'.t.kind = "cron" /\ ~lastOp'.t.repeat) =>
          LET t == lastOp'.t IN
          /\ MapHas(scheduledCommands, t.id)
          /\ scheduledCommands[t.id].eid = t.eid
          /\ now' = NextCronMatch(scheduledCommands[t.id].createdAt)
          /\ events' = <<[type |-> "dispatch", eid |-> t.eid, arg |-> 0]>>
          /\ \A id \in DOMAIN scheduledCommands' : scheduledCommands'[id].eid # t.eid
          /\ \A id \in DOMAIN tickBasedCommands' : tickBasedCommands'[id].eid # t.eid
          /\ \A u \in BagToSet(timers') : u.eid # t.eid]_vars

C6_Witness ==
    /\ lastOp.op = "fire"
    /\ lastOp.t.kind = "cron"
    /\ ~lastOp.t.repeat
    /\ events # <<>>

\* C7: a delay entry with repeat that has fired and was not cancelled has
\* been re-armed (a timer of the entry is pending again); a delay entry
\* without repeat that has fired is removed and has no timer.
C7_RepeatingDelayIsRearmed ==
    (lastOp.op = "fire" /\ lastOp.t.kind = "delay") =>
        LET t == lastOp.t IN
        IF t.repeat
        THEN (MapHas(scheduledCommands, t.id) /\ scheduledCommands[t.id].eid = t.eid)
                => \E u \in TimerSet : u.eid = t.eid /\ u.kind = "delay" /\ u.due > now
        ELSE /\ \A id \in DOMAIN scheduledCommands : scheduledCommands[id].eid # t.eid
             /\ \A u \in TimerSet : u.eid # t.eid

\* C8: every session whose scheduler still has a live timer is in the
\* registry: remove(id) leaves no timer of the removed session behind.
C8_NoTimerOfARemovedSession ==
    \A i \in sessionTimers : \E k \in 1..Len(bots) : bots[k].inst = i

\* C9: cancelCommand(id) returns false and changes none of the three domains
\* (nor any timer) when id is in none of them, and returns true when id is in
\* one of them.
C9_CancelUnknownIsANoOp ==
    [][lastOp'.op = "cancel" =>
          IF lastOp'.id \in AllKeys
          THEN lastOp'.ret = TRUE
          ELSE /\ lastOp'.ret = FALSE
               /\ tickBasedCommands' = tickBasedCommands
               /\ scheduledCommands' = scheduledCommands
               /\ sequences' = sequences
               /\ timers' = timers]_vars

C9_Witness ==
    /\ lastOp.op = "cancel"
    /\ lastOp.ret = FALSE
    /\ AllKeys # {}
    /\ timers # EmptyBag

\* C10: a request with an invalid cron expression, or a single command with
\* no timing option, returns false and creates no entry and no timer.
C10_InvalidRequestIsRejected ==
    [][(lastOp'.op = "schedule" /\ lastOp'.req \in {"badcron", "notiming"}) =>
          /\ lastOp'.ret = FALSE
          /\ nextEid' = nextEid]_vars

C12_FailedCallChangesNothing ==
    [][/\ (supOp'.op = "create" /\ supOp'.id \in BotKeys) => supOp'.ret = FALSE
       /\ (supOp'.op \in {"setActive", "remove"} /\ supOp'.id \notin BotKeys) =>
              supOp'.ret = FALSE
       /\ (supOp'.op \in {"create", "setActive", "remove"} /\ supOp'.ret = FALSE) =>
              /\ ~supOp'.threw
              /\ bots' = bots
              /\ activeBot' = activeBot]_vars

\* a failed setActive in a supervisor that has sessions and an active one
C12_Witness ==
    /\ supOp.op = "setActive"
    /\ supOp.ret = FALSE
    /\ bots # <<>>
    /\ activeBot # NoBot

\* C13: removeBot of a registered id deletes exactly that registry entry,
\* whatever quit() does; the active pointer moves to a remaining session (or
\* to none when there is none) if it pointed at the removed one, and is
\* unchanged otherwise.
C13_RemoveDeletesAndRepairsPointer ==
    [][(supOp'.op = "remove" /\ supOp'.id \in BotKeys) =>
          /\ supOp'.ret = TRUE
          /\ ~supOp'.threw
          /\ bots' = SelectSeq(bots, LAMBDA b : b.id # supOp'.id)
          /\ activeBot = supOp'.id =>
                IF bots' = <<>> THEN activeBot' = NoBot
                ELSE activeBot' \in {bots'[k].id : k \in 1..Len(bots')}
          /\ activeBot # supOp'.id => activeBot' = activeBot]_vars

\* the active session was removed and another session took over
C13_Witness ==
    /\ supOp.op = "remove"
    /\ supOp.ret = TRUE
    /\ activeBot # NoBot
    /\ activeBot # supOp.id
    /\ Len(bots) >= 1
    /\ bots[1].id = activeBot

\* C14: executeCommandOnAll returns a boolean for every registered session
\* and for no other key, hands the command to every session that has a
\* command manager, and gives false for the others; executeCommand(id, ...)
\* returns false for an unknown id and for a session without command manager.
C14_RoutingReachesEverySession ==
    [][/\ supOp'.op = "executeAll" =>
            /\ DOMAIN routed'.results = BotKeys
            /\ \A b \in BotKeys : routed'.results[b] \in BOOLEAN
            /\ routed'.reached = {b \in BotKeys : BotsGet(b).cm}
            /\ \A b \in BotKeys : ~BotsGet(b).cm => routed'.results[b] = FALSE
            /\ ~supOp'.threw
       /\ supOp'.op = "execute" =>
            /\ supOp'.ret \in BOOLEAN
            /\ (supOp'.id \notin BotKeys \/ ~BotsGet(supOp'.id).cm) =>
                  (supOp'.ret = FALSE /\ routed'.reached = {})]_vars

\* a batch in which the first session had no command manager and a later
\* one was reached
C14_Witness ==
    /\ supOp.op = "executeAll"
    /\ Len(bots) >= 2
    /\ ~bots[1].cm
    /\ bots[2].id \in routed.reached
    /\ routed.results[bots[1].id] = FALSE
    /\ routed.results[bots[2].id] = TRUE

\* C15: every name a generator call returns is different from every name
\* that was in the ledger before the call and from the other names of the
\* same batch, and is in the ledger when the call returns.
C15_IssuedNamesAreFresh ==
    [][nameCalls' # nameCalls =>
          /\ \A i \in 1..Len(issued') :
                /\ issued'[i] \notin usedNames
                /\ issued'[i] \in usedNames'
          /\ \A i, j \in 1..Len(issued') : i # j => issued'[i] # issued'[j]]_vars

\* the entries marked working
Working(px) == {k \in 1..Len(px) : ~px[k].null /\ px[k].working}

\* the first working entry in cyclic order from 0-based position c
FirstWorkingFrom(px, c) ==
    LET dist(k) == ((k - 1) - c) % Len(px) IN
    (CHOOSE k \in Working(px) : \A j \in Working(px) : dist(k) <= dist(j)) - 1

C17_RemoveNeverThrowsAndRepairsCursor ==
    [][(proxyOp'.op = "remove" /\ proxyOp'.flip # proxyOp.flip) =>
          /\ ~proxyOp'.threw
          /\ (Len(proxies') < Len(proxies) /\ currentProxyIndex = Len(proxies) - 1
              /\ proxies[Len(proxies)] \notin {proxies'[k] : k \in 1..Len(proxies')}) =>
                currentProxyIndex' = 0
          /\ (Len(proxies') < Len(proxies) /\ currentProxyIndex >= Len(proxies')) =>
                /\ currentProxyIndex' = 0
                /\ currentProxyIndex' < Len(proxies') \/ proxies' = <<>>]_vars

\* C18: every element of the proxy list is a proxy record with a host and a
\* port; a string with fewer than two fields never becomes an element.
C18_ListHoldsOnlyProxies ==
    \A k \in 1..Len(proxies) : ~proxies[k].null

C19_RotationAdvancesByOneWhenDue ==
    [][(proxyOp'.flip # proxyOp.flip /\ proxies # <<>>) =>
          LET next == (currentProxyIndex + 1) % Len(proxies) IN
          /\ proxyOp'.op = "rotate" =>
                /\ currentProxyIndex' = next
                /\ lastRotationTime' = proxyClock
          /\ proxyOp'.op = "getNext" =>
                IF proxyClock - lastRotationTime >= RotationInterval
                THEN /\ proxyOp'.rotated
                     /\ lastRotationTime' = proxyClock
                     /\ (~proxyOp'.threw /\ Working(proxies) # {}) =>
                            currentProxyIndex' = FirstWorkingFrom(proxies, next)
                     /\ (proxyOp'.threw \/ Working(proxies) = {}) =>
                            currentProxyIndex' = next
                ELSE /\ ~proxyOp'.rotated
                     /\ lastRotationTime' = lastRotationTime
                     /\ Working(proxies) = {} => currentProxyIndex' = currentProxyIndex]_vars

\* getNextProxy rotated at the very moment the interval had passed, and
\* selected the entry after the old cursor
C19_Witness ==
    /\ proxyOp.op = "getNext"
    /\ proxyOp.rotated
    /\ proxyClock = RotationInterval
    /\ lastRotationTime = proxyClock
    /\ Len(proxies) >= 2
    /\ proxyOp.ret = 1
    /\ currentProxyIndex = 1

\* the resume timers of the live task
TimersOfTask == {t \in BagToSet(taskTimers) : t.inst = blockQuestTask.inst}

\* C20: a warning seen by a live task sets its pause flag at once; while the
\* flag is set exactly one resume timer is outstanding, due d+2 seconds
\* after the most recent warning (d the seconds it announced); the flag is
\* cleared when that timer fires, and a completion message clears it at once
\* and leaves no resume timer; no task ever has two resume timers. (A task
\* object whose stop threw is no longer live: its timer is cleared, its flag
\* is left as it was.)
C20_PauseEndsAfterAnnouncedSecondsPlusTwo ==
    [][/\ (taskOp'.op = "message" /\ blockQuestTask # NoTask) =>
            /\ (taskOp'.msg.warning /\ ~taskOp'.msg.done) => blockQuestTask'.clearLaggPaused
            /\ taskOp'.msg.done =>
                  /\ ~blockQuestTask'.clearLaggPaused
                  /\ taskTimers' = EmptyBag
            /\ (~taskOp'.msg.warning /\ ~taskOp'.msg.done) =>
                  /\ blockQuestTask' = blockQuestTask
                  /\ taskTimers' = taskTimers
       /\ taskOp'.op = "resume" =>
            /\ blockQuestTask.clearLaggPaused
            /\ ~blockQuestTask'.clearLaggPaused
            /\ taskOp'.warned # NoSeconds =>
                  taskNow' = taskOp'.warnedAt + (taskOp'.warned + 2) * 1000
       /\ taskOp'.op = "clock" => blockQuestTask'.clearLaggPaused = blockQuestTask.clearLaggPaused
       /\ \A t \in DOMAIN taskTimers' :
            /\ taskTimers'[t] = 1
            /\ t.inst = blockQuestTask'.inst
            /\ blockQuestTask' # NoTask
       /\ blockQuestTask'.running =>
            (blockQuestTask'.clearLaggPaused <=> taskTimers' # EmptyBag)
       /\ Cardinality(DOMAIN taskTimers') <= 1]_vars

\* the second task of the session (two listeners registered) was warned
\* after the clock had moved and has been resumed by its timer, 0 + 2
\* seconds after that warning
C20_Witness ==
    /\ taskOp.op = "resume"
    /\ blockQuestTask # NoTask
    /\ ~blockQuestTask.clearLaggPaused
    /\ taskOp.warnedAt > 0
    /\ taskOp.warned = 0
    /\ taskNow = taskOp.warnedAt + 2000
    /\ listeners = 2


\* C21: a place attempt that fails is followed by the corrective reposition
\* exactly when it is the third, sixth, ... failed place attempt in a row:
\* three place failures in a row trigger one reposition, after the third,
\* and fewer than three trigger none, whatever other failures were counted.
C21_RepositionOnEveryThirdPlaceFailureInARow ==
    loopOp.ev = "placeFailed" =>
        (("reposition" \in loopOp.acts) <=> (loops[loopOp.inst].placeRun % 3 = 0))


\* the loops whose task object still has its running flag set
RunningLoops == {i \in DOMAIN loops : loops[i].running}

\* C22: at most one task is running, and a start that finds a task first
\* stops it (running flag cleared, resume timer cancelled, results printed
\* if the task has recorded a completed cycle or a failure, slot cleared)
\* and then installs the new task record.
C22_StartStopsTheExistingTaskFirst ==
    /\ [](Cardinality(RunningLoops) <= 1)
    /\ [][(taskStarts' # taskStarts /\ blockQuestTask # NoTask) =>
            LET old == blockQuestTask.inst IN
            /\ ~loops'[old].running
            /\ \A t \in BagToSet(taskTimers') : t.inst # old
            /\ stopped'.inst = old
            /\ (loops[old].currentCount > 0 \/ loops[old].failed > 0) => stopped'.reported
            /\ blockQuestTask'.inst = taskStarts'
            /\ blockQuestTask'.running]_vars


\* C23: a loop that resumes from a wait after its task was stopped issues
\* no game action (equip, look, place, break, reposition).
C23_NoGameActionAfterStop ==
    (loopOp.acts \cap GameActions # {}) => loopOp.ran


\* C24: register fails with DuplicateVerb exactly when the verb or an alias
\* of the new command is already in the table, a failed register leaves the
\* table alone, every word of the table resolves to the command that
\* registered it, and every command of the bundled list registers.
C24_NoCollisionAndBundledListRegisters ==
    /\ [][regOp' # regOp =>
            /\ (regOp'.err = "DuplicateVerb") <=> (Words(regOp'.cmd) \cap DOMAIN registry # {})
            /\ regOp'.err = "DuplicateVerb" => registry' = registry
            /\ \A w \in DOMAIN registry : registry'[w] = registry[w]]_vars
    /\ [](regOp.bundled => regOp.err = "none")


\* the runs that a step started: "run" events name the timer or call that
\* started the run (eid) and the sequence object that runs (arg)
Runs(evs) == {evs[i] : i \in {j \in 1..Len(evs) : evs[j].type = "run"}}

\* the sequence objects of identifier id with a run in progress: the run is
\* suspended in the wait of a step
InProgress(id) ==
    {o \in DOMAIN objs : objs[o].id = id /\
        \E t \in BagToSet(timers) : t.kind = "step" /\ t.eid = o}

\* C25: when the last step of a repeating sequence that was not cancelled
\* is dispatched, the sequence stays and its next run is armed RepeatDelay
\* later; a run is started only by the sequence's own trigger or by the
\* repeat timer of its own previous run and starts at step 0; at most one
\* run per identifier is in progress; a cancelled sequence starts no run.
C25_RepeatRerunsOneRunAtATime ==
    /\ [][\A ev \in Dispatches(events') :
            (/\ ev.arg > 0
             /\ ev.eid \in DOMAIN objs
             /\ ev.eid \notin dead
             /\ objs[ev.eid].repeat
             /\ ev.arg = Len(objs[ev.eid].delay))
            => /\ MapHas(sequences', objs[ev.eid].id)
               /\ sequences'[objs[ev.eid].id] = ev.eid
               /\ BagIn(Timer("repeat", objs[ev.eid].id, ev.eid, now' + RepeatDelay, 0, FALSE),
                        timers')]_vars
    /\ [][\A ev \in Runs(events') :
            /\ ev.eid = ev.arg
            /\ ev.arg \notin dead]_vars
    /\ [](\A id \in Ids : Cardinality(InProgress(id)) <= 1)


\* the entries of the tick domain, by eid
TickEids == {tickBasedCommands[k].eid : k \in DOMAIN tickBasedCommands}

\* C26: a tick, delay, cron or date entry that cancelCommand removed hands
\* no command to the dispatcher any more: not in a later step, and not later
\* in the step in which the command of another entry cancelled it; the
\* commands handed over before the cancel stay dispatched.
C26_CancelledEntryIsNotDispatchedAgain ==
    [][\A k \in 1..Len(events') :
          (events'[k].type \in ThroughExecute /\ events'[k].arg = 0) =>
             /\ events'[k].eid \notin dead
             /\ \A j \in 1..(k - 1) :
                   ~(events'[j].type = "cancelled" /\ events'[j].eid = events'[k].eid)
             /\ lastOp'.op = "tick" => events'[k].eid \in TickEids]_vars

\* a tick in which the command of the first entry cancelled the second
\* entry, which was due in the same tick and was not dispatched
C26_Witness ==
    /\ lastOp.op = "tick"
    /\ Len(events) = 2
    /\ events[1].type = "dispatch"
    /\ events[2].type = "cancelled"
    /\ events[2].eid # events[1].eid
    /\ events[2].arg = 2
    /\ tickCount = 1


\* the positions of the events of one type and session in the history
MassAtLog(type, inst) ==
    {j \in 1..Len(massLog) : massLog[j] = MassEvent(type, inst)}

MassCreated == {massLog[j].inst : j \in {n \in 1..Len(massLog) : massLog[n].type = "created"}}

\* C27: in bulk creation the sessions are created one at a time, no
\* registration or login command is sent before every session of the batch
\* has been created, a session's registration command is sent before its
\* login command, and when the function has returned every session it
\* created has received both commands
C27_BulkCreationThenRegisterAndLoginForEach ==
    /\ \A j \in 1..Len(massLog) :
          massLog[j].type # "created" =>
              /\ mass.i >= Len(mass.usernames)
              /\ \A n \in 1..Len(massLog) : massLog[n].type = "created" => n < j
    /\ \A inst \in MassCreated :
          /\ Cardinality(MassAtLog("created", inst)) = 1
          /\ \A l \in MassAtLog("login", inst) :
                \E r \in MassAtLog("register", inst) : r < l
          /\ mass.pc = "done" =>
                /\ MassAtLog("register", inst) # {}
                /\ MassAtLog("login", inst) # {}


\* C29: the attack loop and the autonomous task never run at the same time
\* on a session: a start of the attack while the task is running is aborted
\* with SessionBusy and leaves the task as it is, and a start of the task
\* while the attack loop is live starts no task and leaves the attack loop
C29_OneContinuousHandlerAtATime ==
    /\ [](~(attackInterval /\ TaskRunning))
    /\ []((attackOp.op = "start" /\ attackOp.taskRan) =>
              (attackOp.err = "SessionBusy" /\ ~attackOp.done))
    /\ [][(attackInterval /\ taskStarts' > taskStarts) =>
              (loops' = loops /\ attackInterval')]_vars


\* what a cycle that did not complete reports
FailureEvents == {"noBlocks", "noPosition", "exception", "placeFailed", "breakFailed"}

\* the while condition of loop i is false
MustExit(i) ==
    /\ i \in DOMAIN loops
    /\ loops[i].pc # "done"
    /\ (~loops[i].running \/ loops[i].currentCount >= loops[i].targetTimes)

\* C28: the task loop returns only when its count has reached the target or
\* its task has been stopped; a cycle that fails (no block, no position, a
\* place or break failure, an exception) leaves the loop suspended in a
\* wait; and once the count has reached the target or the task has been
\* stopped the loop eventually returns, given that its waits complete
C28_LoopExitsOnlyOnTargetOrStopAndThenExits ==
    /\ [][\A i \in DOMAIN loops :
            (loops[i].pc # "done" /\ loops'[i].pc = "done") => MustExit(i)]_vars
    /\ [][(loopOp' # loopOp /\ loopOp'.ev \in FailureEvents) =>
            loops'[loopOp'.inst].pc \notin {"done"}]_vars
    /\ \A i \in 1..MaxTaskStarts :
          MustExit(i) ~> (i \in DOMAIN loops /\ loops[i].pc = "done")

\* a loop has returned because its task was stopped while it waited
C28_Witness ==
    /\ loopOp.ev = "exit"
    /\ loops[loopOp.inst].pc = "done"
    /\ stopped.inst = loopOp.inst
    /\ ~loopOp.ran

\* a loop has returned because its count reached the target
C28_WitnessCompleted ==
    /\ loopOp.ev = "completed"
    /\ loops[loopOp.inst].pc = "done"
    /\ stopped.inst = loopOp.inst


\* the entries of the three Maps
MapEids ==
    {tickBasedCommands[k].eid : k \in DOMAIN tickBasedCommands}
    \cup {scheduledCommands[k].eid : k \in DOMAIN scheduledCommands}
    \cup {sequences[k] : k \in DOMAIN sequences}

\* C30: a plan load of a saved plan first cancels every entry that is live,
\* and leaves in the tick, scheduled and sequence domains exactly the
\* identifiers of the saved document, with the saved intervals and step
\* lists
C30_LoadRestoresTheSavedSnapshot ==
    [][(planOp'.flip # planOp.flip /\ planOp'.op = "load" /\ planOp'.ok) =>
        LET p == plans[planOp'.name] IN
        /\ MapEids \cap MapEids' = {}
        /\ DOMAIN tickBasedCommands' = {r.id : r \in p.tickBased}
        /\ \A r \in p.tickBased : tickBasedCommands'[r.id].interval = r.interval
        /\ DOMAIN scheduledCommands' = {r.id : r \in p.scheduled}
        /\ DOMAIN sequences' = {r.id : r \in p.sequences}
        /\ \A r \in p.sequences : objs'[sequences'[r.id]].delay = r.commands]_vars


\* C31: a createBot that succeeds appends the session to the registry; the
\* new session becomes the active one exactly when it is then the only
\* session and the call was not a bulk creation, and otherwise the active
\* pointer stays as it was
C31_CreateSetsActiveOnlyForFirstNonBulk ==
    [][(supOp'.op = "create" /\ supOp'.ret /\ Len(bots') = Len(bots) + 1) =>
          /\ bots'[Len(bots')].id = supOp'.id
          /\ SubSeq(bots', 1, Len(bots)) = bots
          /\ activeBot' = IF Len(bots') = 1 /\ ~supOp'.bulk THEN supOp'.id ELSE activeBot]_vars

\* a bulk creation made the first session of the registry and left the
\* pointer at none
C31_Witness ==
    /\ supOp.op = "create"
    /\ supOp.ret
    /\ supOp.bulk
    /\ Len(bots) = 1
    /\ activeBot = NoBot

\* a second session was created and the pointer stayed on the first
C31_WitnessSecond ==
    /\ supOp.op = "create"
    /\ supOp.ret
    /\ ~supOp.bulk
    /\ Len(bots) = 2
    /\ activeBot = bots[1].id


\* C37: whatever createBot, setActiveBot and removeBot calls were made, the
\* active pointer is none or the identifier of a registered session
C37_ActivePointerNoneOrRegistered ==
    activeBot = NoBot \/ BotsHas(activeBot)

\* the session the pointer named was removed while another was registered:
\* the pointer names the remaining one, which a remove call just made first
C37_Witness ==
    /\ supOp.op = "remove"
    /\ supOp.ret
    /\ Len(bots) = 1
    /\ bots[1].inst > 1
    /\ activeBot = bots[1].id


\* C32: a sequence object that was cancelled or replaced has no effect on
\* the scheduler afterwards: it dispatches nothing more, the step in which
\* its run resumes and ends leaves a sequence registered under the same
\* identifier in place, and no run is started by a timer it armed
C32_OldRunLeavesTheReplacementAlone ==
    /\ [][\A ev \in Dispatches(events') : ev.eid \notin dead]_vars
    /\ [][(\E ev \in Dispatches(events') : ev.eid \in dead) =>
             \A id \in DOMAIN sequences :
                 sequences[id] \notin dead =>
                     MapHas(sequences', id) /\ sequences'[id] = sequences[id]]_vars
    /\ [][\A ev \in Runs(events') : ev.eid \notin dead]_vars


\* C33: a scheduleCommand call that returns false leaves the scheduler as
\* it was: the three maps and the armed timers are unchanged, so an entry
\* that was live under the identifier is still live
C33_RejectedScheduleChangesNothing ==
    [][(lastOp'.op = "schedule" /\ lastOp'.ret = FALSE) =>
          /\ tickBasedCommands' = tickBasedCommands
          /\ scheduledCommands' = scheduledCommands
          /\ sequences' = sequences
          /\ timers' = timers]_vars


\* C34: a session that removeBot has removed makes no new game connection:
\* the 'end' event of a session that is no longer registered arms no
\* reconnect timer, no reconnect timer of a removed session is pending, and
\* no reconnect opens a connection for a session outside the registry
C34_RemovedSessionNeverReconnects ==
    /\ [](reconnectTimers \subseteq Registered)
    /\ [][(connOp' # connOp /\ connOp'.op = "connect") => connOp'.inst \in Registered']_vars


\* C35: stopping a task removes the 'message' listener its start registered
\* and adds none: a stop lowers the number of listeners by one, and a
\* session without a task has as many listeners as before the first start
C35_StopRemovesTheListenerOfTheStart ==
    /\ [](blockQuestTask = NoTask => listeners = 0)
    /\ [][(taskOp'.op = "stop" /\ blockQuestTask # NoTask) => listeners' = listeners - 1]_vars


\* C36: after a bulk creation every created session's configuration holds
\* the name generated for that session, and no two of the sessions refer to
\* the same `bot` sub-document
C36_BulkSessionsKeepTheirOwnName ==
    \A j \in 1..Len(mass.configs) :
        /\ mass.docs[mass.configs[j].bot] = mass.configs[j].username
        /\ \A n \in 1..Len(mass.configs) :
              n # j => mass.configs[n].bot # mass.configs[j].bot


\* getCurrentProxy(): null on an empty list, else the element at the cursor
\* (undefined when the cursor is outside the list)
getCurrentProxy == At(proxies, currentProxyIndex)

\* C38: after any calls of initialize, addProxy, removeProxy, rotateProxy
\* and getNextProxy the cursor is 0 on an empty list and an index of the list
\* otherwise
C38_CursorIsAValidIndex ==
    /\ proxies = <<>> => currentProxyIndex = 0
    /\ proxies # <<>> => currentProxyIndex \in 0..(Len(proxies) - 1)

\* the proxy at the cursor is still in the list after the step
CurrentKept ==
    \E k \in 1..Len(proxies') :
        /\ ~proxies'[k].null
        /\ proxies'[k].host = getCurrentProxy.host
        /\ proxies'[k].port = getCurrentProxy.port

\* C39: a removeProxy that removes another proxy than the one at the cursor
\* leaves getCurrentProxy as it was
C39_RemoveOfAnotherKeepsCurrent ==
    [][(/\ proxyOp'.op = "remove"
        /\ proxyOp'.flip # proxyOp.flip
        /\ ~proxyOp'.threw
        /\ currentProxyIndex \in 0..(Len(proxies) - 1)
        /\ CurrentKept)
       => getCurrentProxy' = getCurrentProxy]_vars


\* C40: as long as the loop of a task has not returned, the task's completed
\* count equals its broken counter and exceeds neither its placed counter
\* nor its target, and no step lowers the count or one of the counters
C40_CountIsBrokenAtMostPlacedAtMostTarget ==
    /\ [](\A i \in DOMAIN loops :
            /\ loops[i].currentCount = loops[i].broken
            /\ loops[i].broken <= loops[i].placed
            /\ loops[i].currentCount <= loops[i].targetTimes)
    /\ [][\A i \in DOMAIN loops :
            loops'[i].pc # "done" =>
                /\ loops'[i].currentCount >= loops[i].currentCount
                /\ loops'[i].placed >= loops[i].placed
                /\ loops'[i].broken >= loops[i].broken
                /\ loops'[i].failed >= loops[i].failed]_vars

\* a task that has reached its target of one cycle after a break that failed:
\* two blocks placed, one broken and counted
C40_Witness ==
    \E i \in DOMAIN loops :
        /\ loops[i].pc = "cycle"
        /\ loops[i].currentCount = loops[i].targetTimes
        /\ loops[i].broken = 1
        /\ loops[i].placed = 2
        /\ loops[i].failed >= 1

====
